---- MODULE Spec2Model ----
(***************************************************************************)
(* Market Data Orchestrator of archelyst-backend: the sliding-window rate  *)
(* limiter (app/services/rate_limiter.py), the provider factory with       *)
(* failover and circuit breaker (app/services/data_providers/factory.py),  *)
(* the provider adapters (fmp.py, yfinance.py, base.py) and the            *)
(* orchestrating MarketDataService (app/services/market_data.py).          *)
(*                                                                         *)
(* The code runs on one asyncio event loop: the code between two awaits is *)
(* one atomic step, and every action below is one such stretch.            *)
(*                                                                         *)
(* SpecRL      : concurrent RateLimiter.is_allowed calls against Redis.    *)
(* Spec        : concurrent orchestrator operations through the factory.   *)
(* SpecFactory : concurrent quote requests through the factory while the   *)
(*               health monitor probes and statistics are reset.           *)
(* SpecCache   : operations of the CacheService against its Redis store.  *)
(* SpecAdapter : cached requests of the two concrete adapters.             *)
(* SpecAssess  : quality scoring and anomaly detection of payloads.        *)
(* SpecWarm    : CacheService.warm_cache beside other writers of the cache.*)
(* SpecRetry   : the retry loop of an adapter's upstream request.          *)
(* SpecOverview: the market overview fan-out of the free adapter.          *)
(* SpecLive    : one caller's requests, with the fairness of the event     *)
(*               loop.                                                     *)
(* SpecLevels  : the cache entries of the adapters' operations.            *)
(* SpecRotation: select_provider calls under the round_robin strategy.     *)
(* SpecMonitor : starting and stopping the health-monitoring task.         *)
(***************************************************************************)
EXTENDS Integers, Sequences, FiniteSets, TLC

None == "none"
NoTime == 0 - 1     \* an unset instant (Python None in a datetime field)

(***************************************************************************)
(* Bounds of the model.                                                    *)
(***************************************************************************)
MaxTickRL == 2         \* clock seconds that pass while calls are under way
MaxIdleRL == 1         \* idle periods of one burst window between calls
MaxCallsRL == 3        \* is_allowed calls started in one behaviour
NumCallers == 2        \* concurrent is_allowed callers
MaxNow == 2            \* last clock second of Spec and SpecFactory
NumRequests == 2       \* orchestrator requests in flight at once
MaxIssued == 3         \* orchestrator requests issued in one behaviour
MaxDisturbances == 1   \* monitor health probes and reset_statistics calls
                       \* in one behaviour, taken together
\* the configuration values below are scaled down so that the breaker opens
\* and closes within MaxNow (factory.py: threshold 5, timeout 60, global 30)
CircuitBreakerThreshold == 2   \* ProviderConfig.circuit_breaker_threshold
CircuitBreakerTimeout == 2     \* ProviderConfig.circuit_breaker_timeout
GlobalTimeout == 1             \* DataProviderFactory.global_timeout

VARIABLES
    now,            \* wall clock in whole seconds (time.time(), utcnow())
    zsets,          \* Redis sorted sets of the limiter: key -> set of scores
    zexpire,        \* Redis key expiry instants: key -> second | NoTime
    callers,        \* is_allowed coroutines: pc, provider, current_time, conc
    rl_log,         \* finished is_allowed calls: provider, time, allowed, conc
    rl_started,     \* number of is_allowed calls started
    enabled,             \* ProviderConfig.enabled of each registered provider
    failover_strategy,   \* DataProviderFactory.failover_strategy
    factory,             \* DataProviderFactory: provider_configs (the runtime
                         \* state of every ProviderConfig), request_count,
                         \* failover_count, last_used_provider,
                         \* round_robin_index
    provider_instances,  \* names in DataProviderFactory._provider_instances
    init_pc,             \* initialize_all_providers: "new", the provider
                         \* whose first health check is awaited, or "done"
    health_checks,       \* providers with a _health_check_provider in flight
    requests,            \* MarketDataService operations and their
                         \* get_with_failover frames
    counts,              \* requests issued; probes started and resets done;
                         \* history: the outcomes get_with_failover recorded
                         \* for each provider since the last reset
    breaker_opened,      \* history: when each breaker was last opened
    sel,                 \* what select_provider returned in the step just
                         \* taken, with the provider's state at that moment
    inv,                 \* the adapter invocation of the step just taken
    rec,                 \* the outcome get_with_failover recorded in the
                         \* step just taken, statistics before and after
    probed,              \* the health probe that completed in the step just
                         \* taken, and how its quote operation ended
    returned,            \* the orchestrator operation that ended in the
                         \* step just taken: response or error, envelope
    redis_cache,         \* Redis string keys of CacheService: the entries
                         \* (key, serialized value, expiry instant)
    cache_written,       \* history: the last successful set of each key
    cache_ret,           \* the CacheService or adapter call of the step
                         \* just taken and what it returned
    cache_counts,        \* cache writes, adapter calls and clock steps made
    assessed,            \* the payload MarketDataService assessed in the
                         \* step just taken, with quality, anomalies and
                         \* provenance
    warm,                \* CacheService.warm_cache: position in its loops,
                         \* statistics; history: the keys it overwrote
    monitor,             \* the health-monitoring tasks of the factory:
                         \* _health_monitoring_active, the tasks created
                         \* and the one stored in _health_check_tasks
    selections,          \* history: the direct select_provider calls made,
                         \* each with the providers available to it
    upstream_call        \* one adapter operation inside _make_request:
                         \* loop position; history: the upstream's answers
                         \* and the sleeps of this call, the admissions by
                         \* the rate limiter and the upstream requests
                         \* issued so far

rlvars == <<zsets, zexpire, callers, rl_log, rl_started>>
fvars == <<enabled, failover_strategy, factory, provider_instances, init_pc,
           health_checks, requests, counts, breaker_opened, sel, inv, rec,
           probed, returned>>
cvars == <<redis_cache, cache_written, cache_ret, cache_counts>>
wvars == <<warm, upstream_call, selections, monitor>>
ovars == <<cvars, assessed, wvars>>
vars == <<now, rlvars, fvars, ovars>>

(***************************************************************************)
(* RateLimiter                                                             *)
(***************************************************************************)
Callers == 1..NumCallers
RLProviders == {"alpha_vantage"}
Windows == {"minute", "hour", "day", "burst"}

\* RateLimiter._get_provider_limits
rate_limits ==
    [p \in {"fmp", "yahoo", "alpha_vantage", "polygon"} |->
        CASE p = "fmp" ->
               [requests_per_minute |-> 300, requests_per_hour |-> 5000,
                requests_per_day |-> 25000, burst_limit |-> 10]
          [] p = "yahoo" ->
               [requests_per_minute |-> 100, requests_per_hour |-> 2000,
                requests_per_day |-> 10000, burst_limit |-> 5]
          [] p = "alpha_vantage" ->
               [requests_per_minute |-> 5, requests_per_hour |-> 500,
                requests_per_day |-> 500, burst_limit |-> 2]
          [] p = "polygon" ->
               [requests_per_minute |-> 200, requests_per_hour |-> 10000,
                requests_per_day |-> 50000, burst_limit |-> 8]]

\* the windows list of is_allowed and its burst_window
WindowSeconds(w) ==
    CASE w = "minute" -> 60
      [] w = "hour" -> 3600
      [] w = "day" -> 86400
      [] w = "burst" -> 10

WindowLimit(p, w) ==
    CASE w = "minute" -> rate_limits[p].requests_per_minute
      [] w = "hour" -> rate_limits[p].requests_per_hour
      [] w = "day" -> rate_limits[p].requests_per_day
      [] w = "burst" -> rate_limits[p].burst_limit

\* the for-loop order of is_allowed, then the burst check
NextWindow(w) ==
    CASE w = "minute" -> "hour"
      [] w = "hour" -> "day"
      [] w = "day" -> "burst"
      [] w = "burst" -> "idle"

RLKeys == RLProviders \X Windows

\* a key whose EXPIRE has passed is gone from Redis
ZLive(k) ==
    IF zexpire[k] # NoTime /\ zexpire[k] <= now THEN {} ELSE zsets[k]

\* pipe.zremrangebyscore(key, 0, window_start): scores in [0, window_start]
ZRemRangeByScore(s, lo, hi) == {t \in s : ~(lo <= t /\ t <= hi)}

\* pipe.zadd(key, {str(current_time): current_time}): the member is the
\* second itself, so a second that is already a member is not added again
ZAdd(s, current_time) == s \cup {current_time}

\* one pipeline of is_allowed: zremrangebyscore, zcard, zadd, expire.
\* Returns the count read by zcard and the key's new contents.
WindowBatch(k, current_time, window_seconds) ==
    LET kept == ZRemRangeByScore(ZLive(k), 0, current_time - window_seconds)
    IN  [count |-> Cardinality(kept),
         members |-> ZAdd(kept, current_time),
         expire |-> now + window_seconds]

LimiterInit ==
    /\ zsets = [k \in RLKeys |-> {}]
    /\ zexpire = [k \in RLKeys |-> NoTime]
    /\ callers = [c \in Callers |->
                    [pc |-> "idle", provider |-> None,
                     current_time |-> 0, conc |-> FALSE]]
    /\ rl_log = << >>
    /\ rl_started = 0

\* a caller enters is_allowed(provider, endpoint) for a configured provider
\* and runs up to the first await (the minute pipeline's execute)
IsAllowedCall(c, p) ==
    /\ callers[c].pc = "idle"
    /\ rl_started < MaxCallsRL
    /\ p \in DOMAIN rate_limits
    /\ rl_started' = rl_started + 1
    /\ LET busy == \E d \in Callers \ {c} : callers[d].pc # "idle"
       IN  callers' = [d \in Callers |->
                IF d = c
                THEN [pc |-> "minute", provider |-> p,
                      current_time |-> 0, conc |-> busy]
                ELSE IF callers[d].pc # "idle"
                     THEN [callers[d] EXCEPT !.conc = TRUE]
                     ELSE callers[d]]
    /\ UNCHANGED <<now, zsets, zexpire, rl_log, fvars, ovars>>

\* one window of the for-loop: the pipeline executes atomically in Redis,
\* then the count is compared with the limit
IsAllowedWindow(c) ==
    /\ callers[c].pc \in {"minute", "hour", "day"}
    /\ LET w == callers[c].pc
           p == callers[c].provider
           k == <<p, w>>
           b == WindowBatch(k, now, WindowSeconds(w))
       IN  /\ zsets' = [zsets EXCEPT ![k] = b.members]
           /\ zexpire' = [zexpire EXCEPT ![k] = b.expire]
           /\ IF b.count >= WindowLimit(p, w)
              THEN /\ rl_log' = Append(rl_log,
                        [provider |-> p, time |-> now, allowed |-> FALSE,
                         exceeded_window |-> w,
                         retry_after |-> WindowSeconds(w),
                         conc |-> callers[c].conc])
                   /\ callers' = [callers EXCEPT ![c].pc = "idle",
                                                 ![c].current_time = now]
              ELSE /\ rl_log' = rl_log
                   /\ callers' = [callers EXCEPT ![c].pc = NextWindow(w),
                                                 ![c].current_time = now]
    /\ UNCHANGED <<now, rl_started, fvars, ovars>>

\* the burst check: it reuses current_time of the last loop iteration
IsAllowedBurst(c) ==
    /\ callers[c].pc = "burst"
    /\ LET p == callers[c].provider
           k == <<p, "burst">>
           ct == callers[c].current_time
           b == WindowBatch(k, ct, WindowSeconds("burst"))
           denied == b.count >= WindowLimit(p, "burst")
       IN  /\ zsets' = [zsets EXCEPT ![k] = b.members]
           /\ zexpire' = [zexpire EXCEPT ![k] = b.expire]
           /\ rl_log' = Append(rl_log,
                 [provider |-> p, time |-> now, allowed |-> ~denied,
                  exceeded_window |-> IF denied THEN "burst" ELSE None,
                  retry_after |-> IF denied THEN WindowSeconds("burst") ELSE 0,
                  conc |-> callers[c].conc])
           /\ callers' = [callers EXCEPT ![c].pc = "idle"]
    /\ UNCHANGED <<now, rl_started, fvars, ovars>>

\* the wall clock advances by a second
TickRL ==
    /\ now % WindowSeconds("burst") < MaxTickRL
    /\ now' = now + 1
    /\ UNCHANGED <<rlvars, fvars, ovars>>

\* no call is under way for a whole burst window
IdleRL ==
    /\ \A c \in Callers : callers[c].pc = "idle"
    /\ now < MaxIdleRL * WindowSeconds("burst")
    /\ now' = now + WindowSeconds("burst")
    /\ UNCHANGED <<rlvars, fvars, ovars>>

(***************************************************************************)
(* Provider factory: configuration, circuit breaker, selection             *)
(***************************************************************************)
\* MarketDataService._register_providers registers fmp and yahoo; the third
\* provider is one registered through DataProviderFactory.register_provider
\* (create_default_factory lists it), an adapter that follows the
\* DataProvider base contract and raises DataProviderError subclasses.
Providers == {"fmp", "yahoo", "alpha_vantage"}

\* iteration order of the _provider_configs dict (registration order)
ProviderOrder == <<"fmp", "yahoo", "alpha_vantage">>

\* the order available.sort() puts the names in
SortedOrder == <<"alpha_vantage", "fmp", "yahoo">>

\* ProviderConfig.priority (lower = preferred)
priority ==
    [p \in Providers |->
        CASE p = "fmp" -> 10 [] p = "yahoo" -> 20 [] p = "alpha_vantage" -> 30]

\* the adapters of fmp.py and yfinance.py catch every exception and answer
\* with ProviderResponse(success=False)
ConcreteAdapters == {"fmp", "yahoo"}

Strategies == {"priority_order", "round_robin", "health_based", "load_balanced"}

\* max_retries = max_retries or 3; the orchestrator never passes one
max_retries == 3

\* ProviderConfig.__init__: the runtime state (last_health_check is only
\* written by what is modelled here, and is left out)
NewProviderConfig ==
    [status |-> "unknown",
     consecutive_failures |-> 0,
     circuit_breaker_opened_at |-> NoTime,
     total_requests |-> 0,
     successful_requests |-> 0,
     failed_requests |-> 0,
     average_response_time |-> 0]       \* in milliseconds

\* DataProviderFactory.__init__ (_last_reset_time is only read for the
\* uptime of the status report, and is left out)
NewFactory ==
    [provider_configs |-> [p \in Providers |-> NewProviderConfig],
     request_count |-> 0,
     failover_count |-> 0,
     last_used_provider |-> None,
     round_robin_index |-> 0]

\* a variant of is_circuit_breaker_open that takes the breaker for closed
\* as soon as the failure count is below the threshold again
IsCircuitBreakerOpen_WhileFailing(c, t) ==
    /\ c.circuit_breaker_opened_at # NoTime
    /\ c.consecutive_failures >= CircuitBreakerThreshold
    /\ ~(t - c.circuit_breaker_opened_at >= CircuitBreakerTimeout)

\* ProviderConfig.is_circuit_breaker_open, the value it returns at time t
IsCircuitBreakerOpen(c, t) ==
    /\ c.circuit_breaker_opened_at # NoTime
    /\ ~(t - c.circuit_breaker_opened_at >= CircuitBreakerTimeout)

\* ProviderConfig.is_circuit_breaker_open, the state it leaves behind: once
\* the timeout has elapsed the read closes the breaker and zeroes the count
ReadCircuitBreaker(c, t) ==
    IF /\ c.circuit_breaker_opened_at # NoTime
       /\ t - c.circuit_breaker_opened_at >= CircuitBreakerTimeout
    THEN [c EXCEPT !.circuit_breaker_opened_at = NoTime,
                   !.consecutive_failures = 0]
    ELSE c

\* ProviderConfig.success_rate as the fraction num / den of 100
SuccessRate(c) ==
    IF c.total_requests = 0
    THEN [num |-> 1, den |-> 1]
    ELSE [num |-> c.successful_requests, den |-> c.total_requests]

\* ProviderConfig.record_success: response_time in seconds, the moving
\* average alpha * response_time + (1 - alpha) * average with alpha = 0.1,
\* kept in whole milliseconds
RecordSuccess(c, response_time) ==
    [c EXCEPT !.total_requests = @ + 1,
              !.successful_requests = @ + 1,
              !.consecutive_failures = 0,
              !.average_response_time =
                    (1000 * response_time + 9 * @) \div 10]

\* ProviderConfig.record_failure at time t
RecordFailure(c, t) ==
    LET failures == c.consecutive_failures + 1
    IN  [c EXCEPT !.total_requests = @ + 1,
                  !.failed_requests = @ + 1,
                  !.consecutive_failures = failures,
                  !.circuit_breaker_opened_at =
                        IF /\ failures >= CircuitBreakerThreshold
                           /\ @ = NoTime
                        THEN t ELSE @]

\* a variant of the availability conditions that leaves the status out
ReachesBreakerCheck_AnyStatus(F, p) == enabled[p]

\* the conditions of _get_available_providers that are evaluated before
\* config.is_circuit_breaker_open (Python's and short-circuits)
ReachesBreakerCheck(F, p) ==
    /\ enabled[p]
    /\ F.provider_configs[p].status \in {"healthy", "degraded"}

\* DataProviderFactory._get_available_providers at time t: the list it
\* returns, in dict order, and the factory after the breaker reads
GetAvailableProviders(F, t) ==
    LET Avail(p) ==
            /\ ReachesBreakerCheck(F, p)
            /\ ~IsCircuitBreakerOpen(F.provider_configs[p], t)
            /\ p \in provider_instances
    IN  [available |-> SelectSeq(ProviderOrder, Avail),
         F |-> [F EXCEPT !.provider_configs =
                    [p \in Providers |->
                        IF ReachesBreakerCheck(F, p)
                        THEN ReadCircuitBreaker(F.provider_configs[p], t)
                        ELSE F.provider_configs[p]]]]

\* a variant of the priority selection that takes the last available name
SelectByPriority_Last(available) == available[Len(available)]

\* _select_provider_by_priority: sorted() is stable, the first of the
\* providers with the least priority value
SelectByPriority(available) ==
    LET Least(p) == \A i \in 1..Len(available) :
                        priority[p] <= priority[available[i]]
    IN  SelectSeq(available, Least)[1]

\* a variant of the rotation that never moves its index
SelectByRoundRobin_Stuck(available, index) ==
    LET InAvail(p) == \E i \in 1..Len(available) : available[i] = p
        sorted == SelectSeq(SortedOrder, InAvail)
        idx == IF index >= Len(sorted) THEN 0 ELSE index
    IN  [name |-> sorted[idx + 1], index |-> index]

\* _select_provider_by_round_robin: the selected name and the new index
SelectByRoundRobin(available, index) ==
    LET InAvail(p) == \E i \in 1..Len(available) : available[i] = p
        sorted == SelectSeq(SortedOrder, InAvail)
        idx == IF index >= Len(sorted) THEN 0 ELSE index
    IN  [name |-> sorted[idx + 1],
         index |-> (idx + 1) % Len(sorted)]

\* the score of _select_provider_by_health, times 1000 * den of SuccessRate:
\* 0.7 * success_rate + 0.3 * max(0, 100 - average_response_time / 10 * 100)
HealthScore(c) ==
    LET r == SuccessRate(c)
        slack == 10000 - c.average_response_time
    IN  [num |-> 70000 * r.num + 3 * r.den * (IF slack > 0 THEN slack ELSE 0),
         den |-> r.den]

\* _select_provider_by_health: sort by score, highest first (stable)
SelectByHealth(F, available) ==
    LET score(p) == HealthScore(F.provider_configs[p])
        Best(p) == \A i \in 1..Len(available) :
                      score(p).num * score(available[i]).den
                          >= score(available[i]).num * score(p).den
    IN  SelectSeq(available, Best)[1]

\* DataProviderFactory.select_provider at time t.  rnd is the provider the
\* weighted random draw of _select_provider_by_load_balance lands on: every
\* weight 1 / (load + 1) is positive, so it can be any available provider.
SelectProvider(F, t, rnd) ==
    LET g == GetAvailableProviders(F, t)
        available == g.available
    IN  IF available = << >>
        THEN [name |-> None, F |-> g.F]
        ELSE CASE failover_strategy = "priority_order" ->
                    [name |-> SelectByPriority(available), F |-> g.F]
               [] failover_strategy = "round_robin" ->
                    LET rr == SelectByRoundRobin(available,
                                                 F.round_robin_index)
                    IN  [name |-> rr.name,
                         F |-> [g.F EXCEPT !.round_robin_index = rr.index]]
               [] failover_strategy = "health_based" ->
                    [name |-> SelectByHealth(g.F, available), F |-> g.F]
               [] failover_strategy = "load_balanced" ->
                    [name |-> IF \E i \in 1..Len(available) :
                                    available[i] = rnd
                              THEN rnd ELSE available[1],
                     F |-> g.F]

(***************************************************************************)
(* Errors, adapter results and the failover loop                           *)
(***************************************************************************)
NoException ==
    [type |-> None, message |-> "", provider |-> None, retry_after |-> 0]

\* base.DataProviderError(message, provider=...)
DataProviderError(message, p) ==
    [type |-> "DataProviderError", message |-> message, provider |-> p,
     retry_after |-> 0]

\* base.DataProviderRateLimitError as DataProvider._check_rate_limit raises
\* it: retry_after = 60 - seconds since the window began, here the whole 60
DataProviderRateLimitError(p) ==
    [type |-> "DataProviderRateLimitError",
     message |-> "Rate limit exceeded", provider |-> p, retry_after |-> 60]

\* the TypeError Python raises when a factory wrapper is called with one
\* positional argument too many
TypeError ==
    [type |-> "TypeError", message |-> "takes from 2 to 3 positional arguments but 4 were given",
     provider |-> None, retry_after |-> 0]

\* MarketDataService operations
Operations ==
    {"get_quote", "get_profile", "get_historical_data", "search_securities",
     "get_market_overview"}

\* get_historical_data passes (symbol, period, interval) and
\* search_securities passes (query, asset_type, limit) to factory wrappers
\* that take two positional arguments: the call raises TypeError before
\* get_with_failover is entered
WrapperRejectsCall(op) == op \in {"get_historical_data", "search_securities"}

\* what the adapters put into the data of a successful response: the keys
\* that are present with a value, and whether str(data) contains "price"
AdapterData(op) ==
    CASE op = "get_quote" ->
            [fields |-> {"symbol", "price"}, mentions_price |-> TRUE]
      [] op = "get_profile" ->
            [fields |-> {"symbol"}, mentions_price |-> FALSE]
      [] OTHER ->
            [fields |-> {}, mentions_price |-> TRUE]

NoData == [fields |-> {}, mentions_price |-> FALSE]

\* how one call of a concrete adapter operation can end for the factory
\* (the wait_for timeout apart): "ok", the upstream answered; "denied", the
\* rate limiter refused (the raise of _make_request is caught by the
\* operation's except Exception); "failed", the upstream failed
ConcreteOutcomes == {"ok", "denied", "failed"}

\* FMPProvider.get_market_overview builds its successful response with the
\* keyword cached=, which ProviderResponse does not take: the TypeError is
\* caught by the operation's own except Exception
ConstructorRejects(p, op) == p = "fmp" /\ op = "get_market_overview"

\* the ProviderResponse a provider's operation returns
AdapterResponse(p, op, outcome) ==
    IF outcome = "ok" /\ ~ConstructorRejects(p, op)
    THEN [success |-> TRUE, data |-> AdapterData(op), error |-> None,
          provider |-> p, cached |-> FALSE]
    ELSE [success |-> FALSE, data |-> NoData,
          error |-> CASE outcome = "denied" -> "Rate limit exceeded"
                      [] outcome = "failed" -> "request failed after all attempts"
                      [] OTHER -> "unexpected keyword argument cached",
          provider |-> p, cached |-> FALSE]

NoResponse ==
    [success |-> FALSE, data |-> NoData, error |-> None, provider |-> None,
     cached |-> FALSE]

\* a variant of the end of get_with_failover that always raises the generic
\* error
RaiseAfterLoop_Generic(last_exception) ==
    DataProviderError("All providers failed", "factory")

\* the end of get_with_failover: raise last_exception, or the generic error
RaiseAfterLoop(last_exception) ==
    IF last_exception.type # None
    THEN last_exception
    ELSE DataProviderError("All providers failed", "factory")

\* get_with_failover from the head of loop iteration `attempt` up to its
\* next await at time t: either an adapter operation is invoked on
\* `provider`, or the call raises `exc`.  selected is what select_provider
\* returned.
FailoverLoop(F, attempt, attempted, last_exception, t, rnd) ==
    IF attempt >= max_retries
    THEN [kind |-> "raise", F |-> F, provider |-> None,
          selected |-> None, exc |-> RaiseAfterLoop(last_exception)]
    ELSE
    LET s == SelectProvider(F, t, rnd)
    IN  IF s.name = None
        THEN [kind |-> "raise", F |-> s.F, provider |-> None,
              selected |-> None,
              exc |-> DataProviderError("No available providers for request",
                                        "factory")]
        ELSE IF s.name \in attempted
        THEN LET g == GetAvailableProviders(s.F, t)
                 Untried(p) == p \notin attempted
                 rest == SelectSeq(g.available, Untried)
             IN  IF rest # << >>
                 THEN [kind |-> "invoke", F |-> g.F,
                       provider |-> rest[1], selected |-> s.name,
                       exc |-> last_exception]
                 ELSE [kind |-> "raise", F |-> g.F,
                       provider |-> None, selected |-> s.name,
                       exc |-> RaiseAfterLoop(last_exception)]
        ELSE [kind |-> "invoke", F |-> s.F,
              provider |-> s.name, selected |-> s.name,
              exc |-> last_exception]

\* the tail of a failed loop iteration: the failover count
CountFailover(F, attempt) ==
    IF attempt < max_retries - 1
    THEN [F EXCEPT !.failover_count = @ + 1]
    ELSE F

(***************************************************************************)
(* MarketDataService: quality, provenance, envelopes                       *)
(***************************************************************************)
\* the DataQualityMetrics of every failure envelope
ZeroQuality ==
    [completeness_score |-> 0, freshness_score |-> 0, accuracy_score |-> 0,
     consistency_score |-> 0, overall_score |-> 0,
     quality_level |-> "unreliable"]

\* scores are kept in units of 10^-7 point and request times in units of
\* 10^-8 second, so that 100 - request_time * 10 and the weighted sum are
\* whole numbers of units
Points(n) == n * 10000000
Seconds(n) == n * 100000000

\* provider_scores.get(provider, 80.0)
AccuracyScore(p) ==
    CASE p = "fmp" -> Points(95)
      [] p = "yahoo" -> Points(85)
      [] p = "alpha_vantage" -> Points(90)
      [] OTHER -> Points(80)

\* quality_thresholds, highest first
QualityLevel(overall) ==
    CASE overall >= Points(95) -> "excellent"
      [] overall >= Points(85) -> "good"
      [] overall >= Points(70) -> "fair"
      [] overall >= Points(50) -> "poor"
      [] OTHER -> "unreliable"

\* completeness * 0.3 + freshness * 0.25 + accuracy * 0.25 +
\* consistency * 0.2
WeightedScore(completeness, freshness, accuracy, consistency) ==
    3 * (completeness \div 10) + freshness \div 4 + accuracy \div 4
        + consistency \div 5

\* MarketDataService._calculate_data_quality
CalculateDataQuality(data, p, request_time, cache_hit) ==
    LET required == IF data.mentions_price
                    THEN {"symbol", "price"} ELSE {"symbol"}
        present == Cardinality(required \cap data.fields)
        completeness == (present * Points(100)) \div Cardinality(required)
        aged == Points(100) - request_time
        freshness == IF ~cache_hit THEN Points(100)
                     ELSE IF aged > Points(50) THEN aged ELSE Points(50)
        accuracy == AccuracyScore(p)
        consistency == Points(90)
        overall == WeightedScore(completeness, freshness, accuracy,
                                 consistency)
    IN  [completeness_score |-> completeness,
         freshness_score |-> freshness,
         accuracy_score |-> accuracy,
         consistency_score |-> consistency,
         overall_score |-> overall,
         quality_level |-> QualityLevel(overall)]

\* schemas.market_data.DataSource
DataSources == {"fmp", "yahoo", "alpha_vantage", "polygon", "aggregated"}

\* a variant that names the fallback source for every provider
PrimarySource_Fallback(p) == "yahoo"

\* DataSource(provider), with the ValueError fallback of
\* _create_data_provenance
PrimarySource(p) == IF p \in DataSources THEN p ELSE "yahoo"

\* DataProviderFactory.get_factory_status at time t, as far as it changes
\* state: to_dict reads every is_circuit_breaker_open, then
\* _get_available_providers runs
GetFactoryStatusReads(F, t) ==
    LET F1 == [F EXCEPT !.provider_configs =
                  [p \in Providers |->
                      ReadCircuitBreaker(F.provider_configs[p], t)]]
    IN  GetAvailableProviders(F1, t).F

\* the envelope of the failure branches (an unsuccessful response, or the
\* except Exception handler) of every operation
FailureEnvelope(message, processing_time) ==
    [success |-> FALSE, data |-> None, error |-> message,
     data_quality |-> ZeroQuality,
     primary_source |-> PrimarySource("unknown"),
     fallback_sources |-> << >>,
     cache_hit |-> FALSE,
     processing_time |-> processing_time]

\* the envelope of the success branch
SuccessEnvelope(response, processing_time) ==
    [success |-> TRUE, data |-> response.data, error |-> None,
     data_quality |-> CalculateDataQuality(response.data, response.provider,
                                           Seconds(processing_time),
                                           response.cached),
     primary_source |-> PrimarySource(response.provider),
     fallback_sources |-> << >>,
     cache_hit |-> response.cached,
     processing_time |-> processing_time]

\* a variant of an operation that does not look at response.success
EnvelopeOf_Unchecked(response, processing_time) ==
    SuccessEnvelope(response, processing_time)

\* what an operation does with the ProviderResponse the factory returned
EnvelopeOf(response, processing_time) ==
    IF response.success
    THEN SuccessEnvelope(response, processing_time)
    ELSE FailureEnvelope(response.error, processing_time)

NoEnvelope ==
    [success |-> FALSE, data |-> None, error |-> None,
     data_quality |-> ZeroQuality, primary_source |-> None,
     fallback_sources |-> << >>, cache_hit |-> FALSE, processing_time |-> 0]

(***************************************************************************)
(* The factory and the orchestrator as a state machine                     *)
(***************************************************************************)
Requests == 1..NumRequests

\* the factories the model starts from: a failover strategy with the
\* registrations' enabled flags (the second configuration registers yahoo
\* with enabled=False)
AllEnabled == [p \in Providers |-> TRUE]
YahooDisabled == [p \in Providers |-> p # "yahoo"]
Configurations ==
    {<<"priority_order", AllEnabled>>, <<"health_based", AllEnabled>>,
     <<"round_robin", YahooDisabled>>, <<"load_balanced", YahooDisabled>>}

NoRecording ==
    [request |-> 0, provider |-> None, outcome |-> None, attempt |-> 0,
     before |-> NewProviderConfig, after |-> NewProviderConfig,
     failover_before |-> 0, failover_after |-> 0]

\* an orchestrator operation that is not running
IdleRequest ==
    [pc |-> "idle", op |-> None, attempt |-> 0, trail |-> << >>,
     provider |-> None, start_time |-> 0, request_start |-> 0,
     last_exception |-> NoException]

NoReturn ==
    [kind |-> None, op |-> None, trail |-> << >>,
     result |-> NoResponse, raised |-> NoException, envelope |-> NoEnvelope]

NoProbe == [provider |-> None, outcome |-> None]

\* a step in which no request selects, invokes, records or returns
QuietRequests ==
    /\ sel' = None
    /\ inv' = None
    /\ rec' = NoRecording
    /\ returned' = NoReturn

\* a step in which, besides, no health probe completes
Quiet == QuietRequests /\ probed' = NoProbe

\* a variant of the loop that forgets which providers it attempted
AttemptedProviders_Forgotten(trail) == {}

\* attempted_providers of a get_with_failover frame
AttemptedProviders(trail) == {trail[i].provider : i \in 1..Len(trail)}

\* no outcome recorded yet for any provider
NoneRecorded == [p \in Providers |-> [successes |-> 0, failures |-> 0]]

FactoryInit ==
    /\ factory = NewFactory
    /\ provider_instances = {}
    /\ init_pc = "new"
    /\ health_checks = {}
    /\ requests = [r \in Requests |-> IdleRequest]
    /\ counts = [issued |-> 0, disturbances |-> 0,
                 recorded |-> NoneRecorded]
    /\ breaker_opened = [p \in Providers |-> NoTime]
    /\ sel = None
    /\ inv = None
    /\ rec = NoRecording
    /\ probed = NoProbe
    /\ returned = NoReturn

\* a variant of initialize_all_providers that passes over the providers
\* that are not enabled
RECURSIVE InitializeFrom_Unmarked(_, _, _)
InitializeFrom_Unmarked(F, instances, i) ==
    IF i > Len(ProviderOrder)
    THEN [F |-> F, instances |-> instances, pc |-> "done"]
    ELSE LET p == ProviderOrder[i]
         IN  IF enabled[p]
             THEN [F |-> F, instances |-> instances \cup {p}, pc |-> p]
             ELSE InitializeFrom_Unmarked(F, instances, i + 1)

\* initialize_all_providers from the i-th registered provider on, up to the
\* next await: disabled providers are marked, the first enabled one gets
\* its instance and its check_health is awaited
RECURSIVE InitializeFrom(_, _, _)
InitializeFrom(F, instances, i) ==
    IF i > Len(ProviderOrder)
    THEN [F |-> F, instances |-> instances, pc |-> "done"]
    ELSE LET p == ProviderOrder[i]
         IN  IF enabled[p]
             THEN [F |-> F, instances |-> instances \cup {p}, pc |-> p]
             ELSE InitializeFrom(
                    [F EXCEPT !.provider_configs[p].status = "disabled"],
                    instances, i + 1)

IndexOf(p) == CHOOSE i \in 1..Len(ProviderOrder) : ProviderOrder[i] = p

\* how the get_stock_quote("AAPL") of a health probe can end: the concrete
\* adapters return a response, successful or not (a refusal by the rate
\* limiter ends like a failed upstream), and never raise; an adapter of the
\* base contract returns or raises
ProbeOutcomes(p) ==
    IF p \in ConcreteAdapters THEN {"ok", "failed"} ELSE {"ok", "raised"}

\* a variant of check_health that looks at the success of the response
CheckHealth_BySuccess(p, outcome) ==
    outcome # "raised" /\ AdapterResponse(p, "get_quote", outcome).success

\* DataProvider.check_health: is_healthy unless get_stock_quote raises
CheckHealth(p, outcome) == outcome # "raised"

\* the status a completed probe leaves
StatusOfProbe(p, outcome) ==
    IF CheckHealth(p, outcome) THEN "healthy" ELSE "unhealthy"


\* MarketDataService.initialize calls initialize_all_providers
InitializeAllProviders ==
    /\ init_pc = "new"
    /\ LET s == InitializeFrom(factory, provider_instances, 1)
       IN  /\ factory' = s.F
           /\ provider_instances' = s.instances
           /\ init_pc' = s.pc
    /\ Quiet
    /\ UNCHANGED <<now, rlvars, ovars, enabled, failover_strategy, health_checks,
                   requests, counts, breaker_opened>>

\* the check_health awaited by initialize_provider returns
InitializeProviderChecked(outcome) ==
    /\ init_pc \in Providers
    /\ outcome \in ProbeOutcomes(init_pc)
    /\ LET p == init_pc
           F1 == [factory EXCEPT
                    !.provider_configs[p].status = StatusOfProbe(p, outcome)]
           s == InitializeFrom(F1, provider_instances, IndexOf(p) + 1)
       IN  /\ factory' = s.F
           /\ provider_instances' = s.instances
           /\ init_pc' = s.pc
           /\ probed' = [provider |-> p, outcome |-> outcome]
    /\ QuietRequests
    /\ UNCHANGED <<now, rlvars, ovars, enabled, failover_strategy, health_checks,
                   requests, counts, breaker_opened>>

\* DataProviderFactory(max_concurrent_health_checks=...): configured below
\* the number of providers, so that a round can reach the limit
max_concurrent_health_checks == 2

\* the providers a monitoring round looks at, in dict order
MonitoredProviders ==
    LET Monitored(p) == enabled[p] /\ p \in provider_instances
    IN  SelectSeq(ProviderOrder, Monitored)

\* a variant of the round that creates a task for every due provider
TasksOfRound_Unlimited(candidates, due, tasks) ==
    tasks \cup {candidates[i] : i \in {j \in 1..Len(candidates) :
                                            candidates[j] \in due}}

\* the for loop of one round of run_health_monitoring: a task for each
\* provider whose check is due, and a break once the number of tasks has
\* reached max_concurrent_health_checks
RECURSIVE TasksOfRound(_, _, _)
TasksOfRound(candidates, due, tasks) ==
    IF candidates = << >> THEN tasks
    ELSE LET p == Head(candidates)
             created == IF p \in due THEN tasks \cup {p} ELSE tasks
         IN  IF Cardinality(created) >= max_concurrent_health_checks
             THEN created
             ELSE TasksOfRound(Tail(candidates), due, created)

\* one round of run_health_monitoring up to its gather: the previous
\* round's tasks are all done (gather has returned and the sleep is over),
\* and the _health_check_provider tasks of this round run up to their await
HealthMonitorRound(due) ==
    /\ init_pc = "done"
    /\ counts.disturbances < MaxDisturbances
    /\ health_checks = {}
    /\ due # {}
    /\ \A p \in due : \E i \in 1..Len(MonitoredProviders) :
                            MonitoredProviders[i] = p
    /\ health_checks' = TasksOfRound(MonitoredProviders, due, {})
    /\ counts' = [counts EXCEPT !.disturbances = @ + 1]
    /\ Quiet
    /\ UNCHANGED <<now, rlvars, ovars, enabled, failover_strategy, factory,
                   provider_instances, init_pc, requests, breaker_opened>>

\* the check_health awaited by _health_check_provider returns
HealthCheckDone(p, outcome) ==
    /\ p \in health_checks
    /\ outcome \in ProbeOutcomes(p)
    /\ health_checks' = health_checks \ {p}
    /\ factory' = [factory EXCEPT
            !.provider_configs[p].status = StatusOfProbe(p, outcome)]
    /\ probed' = [provider |-> p, outcome |-> outcome]
    /\ QuietRequests
    /\ UNCHANGED <<now, rlvars, ovars, enabled, failover_strategy,
                   provider_instances, init_pc, requests, counts,
                   breaker_opened>>
\* when each breaker was last opened: the history hist brought up to the
\* factory F
LastOpened(F, hist) ==
    [p \in Providers |->
        IF F.provider_configs[p].circuit_breaker_opened_at # NoTime
        THEN F.provider_configs[p].circuit_breaker_opened_at
        ELSE hist[p]]

\* what one recording of an outcome did to the provider and the factory
Recording(r, p, outcome, attempt, F0, F1) ==
    [request |-> r, provider |-> p, outcome |-> outcome,
     attempt |-> attempt,
     before |-> F0.provider_configs[p], after |-> F1.provider_configs[p],
     failover_before |-> F0.failover_count,
     failover_after |-> F1.failover_count]

\* the operation of frame fr ends: its frame is free again
Returns(r, fr, kind, trail, response, exc, envelope) ==
    /\ requests' = [requests EXCEPT ![r] = IdleRequest]
    /\ returned' = [kind |-> kind, op |-> fr.op,
                    trail |-> trail, result |-> response, raised |-> exc,
                    envelope |-> envelope]

\* the frame fr of request r goes on with the loop result L: it awaits the
\* adapter operation it invoked, or get_with_failover raises and the
\* operation's except Exception handler builds the failure envelope
Continue(r, fr, L, hist) ==
    /\ breaker_opened' = hist
    /\ sel' = L.selected
    /\ IF L.kind = "invoke"
       THEN /\ factory' = L.F
            /\ inv' = L.provider
            /\ requests' = [requests EXCEPT ![r] =
                    [fr EXCEPT !.pc = "inflight",
                               !.provider = L.provider,
                               !.start_time = now,
                               !.last_exception = L.exc]]
            /\ returned' = NoReturn
       ELSE /\ factory' = GetFactoryStatusReads(L.F, now)
            /\ inv' = None
            /\ Returns(r, fr, "raise", fr.trail, NoResponse, L.exc,
                       FailureEnvelope(L.exc.message,
                                       now - fr.request_start))

\* the frame with the least number that is free
FreeFrame(r) ==
    /\ requests[r].pc = "idle"
    /\ \A q \in Requests : q < r => requests[q].pc = "inflight"

\* a caller awaits one MarketDataService operation, once initialize() has
\* returned; it runs up to the first await of an adapter operation, or to
\* its end
StartRequest(r, op, rnd) ==
    /\ init_pc = "done"
    /\ FreeFrame(r)
    /\ counts.issued < MaxIssued
    /\ counts' = [counts EXCEPT !.issued = @ + 1]
    /\ rec' = NoRecording
    /\ LET fr == [IdleRequest EXCEPT !.op = op, !.request_start = now]
       IN  IF WrapperRejectsCall(op)
           THEN /\ factory' = GetFactoryStatusReads(factory, now)
                /\ Returns(r, fr, "raise", << >>, NoResponse, TypeError,
                           FailureEnvelope(TypeError.message, 0))
                /\ sel' = None
                /\ inv' = None
                /\ UNCHANGED breaker_opened
           ELSE Continue(r, fr,
                         FailoverLoop(factory, 0, {}, NoException, now, rnd),
                         breaker_opened)
    /\ probed' = NoProbe
    /\ UNCHANGED <<now, rlvars, ovars, enabled, failover_strategy,
                   provider_instances, init_pc, health_checks>>

\* the outcomes an adapter operation of provider p can return with
ReturnOutcomes(p) ==
    IF p \in ConcreteAdapters THEN ConcreteOutcomes ELSE {"ok"}

\* a variant of the success branch that does not note the provider used
OnReturn_KeepsLastUsed(F, p, response_time) ==
    [F EXCEPT !.provider_configs[p] = RecordSuccess(@, response_time),
              !.request_count = @ + 1]

\* get_with_failover after the awaited operation returned a response:
\* record_success, request count, last used provider
OnReturn(F, p, response_time) ==
    [F EXCEPT !.provider_configs[p] = RecordSuccess(@, response_time),
              !.request_count = @ + 1,
              !.last_used_provider = p]

\* a variant of the timeout branch that does not count the failure
OnTimeout_Uncounted(F, p, t) == F

\* the except asyncio.TimeoutError branch
OnTimeout(F, p, t) ==
    [F EXCEPT !.provider_configs[p] = RecordFailure(@, t)]

\* a variant of the rate-limit branch that counts a failure, as the
\* except Exception branch does
OnRateLimitError_Counted(F, p, t) ==
    [F EXCEPT !.provider_configs[p] = RecordFailure(@, t)]

\* the except DataProviderRateLimitError branch: no statistics are touched
OnRateLimitError(F, p, t) == F

\* the except Exception branch
OnException(F, p, t) ==
    [F EXCEPT !.provider_configs[p] = RecordFailure(@, t)]

\* the awaited adapter operation returns a ProviderResponse before the
\* timeout: get_with_failover returns it and the operation builds its envelope
AdapterReturns(r, outcome) ==
    /\ requests[r].pc = "inflight"
    /\ now - requests[r].start_time < GlobalTimeout
    /\ outcome \in ReturnOutcomes(requests[r].provider)
    /\ LET fr == requests[r]
           p == fr.provider
           response == AdapterResponse(p, fr.op, outcome)
           F1 == OnReturn(factory, p, now - fr.start_time)
       IN  /\ rec' = Recording(r, p, "returned", fr.attempt, factory, F1)
           /\ breaker_opened' = LastOpened(F1, breaker_opened)
           /\ factory' = GetFactoryStatusReads(F1, now)
           /\ Returns(r, fr, "response",
                      Append(fr.trail, [provider |-> p,
                                        outcome |-> "returned"]),
                      response, NoException,
                      EnvelopeOf(response, now - fr.request_start))
           /\ counts' = [counts EXCEPT !.recorded[p].successes = @ + 1]
    /\ sel' = None
    /\ inv' = None
    /\ probed' = NoProbe
    /\ UNCHANGED <<now, rlvars, ovars, enabled, failover_strategy,
                   provider_instances, init_pc, health_checks>>

\* a failed attempt of request r: F1 is the factory after the except
\* branch; the loop goes on at once with its next iteration
AttemptFailed(r, outcome, exc, F1, rnd) ==
    LET fr == requests[r]
        p == fr.provider
        trail == Append(fr.trail, [provider |-> p, outcome |-> outcome])
        F2 == CountFailover(F1, fr.attempt)
        hist == LastOpened(F2, breaker_opened)
        L == FailoverLoop(F2, fr.attempt + 1, AttemptedProviders(trail),
                          exc, now, rnd)
    IN  /\ rec' = Recording(r, p, outcome, fr.attempt, factory, F2)
        /\ Continue(r, [fr EXCEPT !.trail = trail,
                                  !.attempt = fr.attempt + 1], L, hist)

\* asyncio.wait_for gives up on the adapter operation
AdapterTimesOut(r, rnd) ==
    /\ requests[r].pc = "inflight"
    /\ now - requests[r].start_time >= GlobalTimeout
    /\ LET p == requests[r].provider
       IN  AttemptFailed(r, "timeout",
                DataProviderError("Request timeout for provider", p),
                OnTimeout(factory, p, now), rnd)
           /\ counts' = [counts EXCEPT !.recorded[p].failures = @ + 1]
    /\ probed' = NoProbe
    /\ UNCHANGED <<now, rlvars, ovars, enabled, failover_strategy,
                   provider_instances, init_pc, health_checks>>

\* the adapter operation raises DataProviderRateLimitError (an adapter
\* that uses DataProvider._check_rate_limit)
AdapterRaisesRateLimit(r, rnd) ==
    /\ requests[r].pc = "inflight"
    /\ now - requests[r].start_time < GlobalTimeout
    /\ requests[r].provider \notin ConcreteAdapters
    /\ LET p == requests[r].provider
       IN  AttemptFailed(r, "rate_limit", DataProviderRateLimitError(p),
                         OnRateLimitError(factory, p, now), rnd)
    /\ probed' = NoProbe
    /\ UNCHANGED <<now, rlvars, ovars, enabled, failover_strategy,
                   provider_instances, init_pc, health_checks, counts>>

\* the adapter operation raises any other exception
AdapterRaises(r, rnd) ==
    /\ requests[r].pc = "inflight"
    /\ now - requests[r].start_time < GlobalTimeout
    /\ requests[r].provider \notin ConcreteAdapters
    /\ LET p == requests[r].provider
       IN  AttemptFailed(r, "error",
                DataProviderError("upstream request failed", p),
                OnException(factory, p, now), rnd)
           /\ counts' = [counts EXCEPT !.recorded[p].failures = @ + 1]
    /\ probed' = NoProbe
    /\ UNCHANGED <<now, rlvars, ovars, enabled, failover_strategy,
                   provider_instances, init_pc, health_checks>>

\* a status read outside a request (get_factory_status)
GetFactoryStatus ==
    /\ factory' = GetFactoryStatusReads(factory, now)
    /\ Quiet
    /\ UNCHANGED <<now, rlvars, ovars, enabled, failover_strategy,
                   provider_instances, init_pc, health_checks, requests,
                   counts, breaker_opened>>

\* a variant of reset_statistics that leaves the failure counts alone
ResetStatisticsOf_KeepingFailures(F) ==
    [F EXCEPT !.request_count = 0,
              !.failover_count = 0,
              !.provider_configs =
                  [p \in Providers |->
                      [F.provider_configs[p] EXCEPT
                          !.total_requests = 0,
                          !.successful_requests = 0,
                          !.consecutive_failures = 0,
                          !.average_response_time = 0]]]

\* DataProviderFactory.reset_statistics
ResetStatisticsOf(F) ==
    [F EXCEPT !.request_count = 0,
              !.failover_count = 0,
              !.provider_configs =
                  [p \in Providers |->
                      [F.provider_configs[p] EXCEPT
                          !.total_requests = 0,
                          !.successful_requests = 0,
                          !.failed_requests = 0,
                          !.consecutive_failures = 0,
                          !.average_response_time = 0]]]

ResetStatistics ==
    /\ counts.disturbances < MaxDisturbances
    /\ counts' = [counts EXCEPT !.disturbances = @ + 1,
                                !.recorded = NoneRecorded]
    /\ factory' = ResetStatisticsOf(factory)
    /\ Quiet
    /\ UNCHANGED <<now, rlvars, ovars, enabled, failover_strategy,
                   provider_instances, init_pc, health_checks, requests,
                   breaker_opened>>

\* the wall clock advances by a second (seconds are counted from the end
\* of initialize()); wait_for fires no later than its timeout
Tick ==
    /\ init_pc = "done"
    /\ now < MaxNow
    /\ \A r \in Requests :
            requests[r].pc = "inflight"
                => now - requests[r].start_time < GlobalTimeout
    /\ now' = now + 1
    /\ Quiet
    /\ UNCHANGED <<rlvars, ovars, enabled, failover_strategy, factory,
                   provider_instances, init_pc, health_checks, requests,
                   counts, breaker_opened>>


\* bound of the rotation specification
MaxSelections == 4     \* direct select_provider calls in one behaviour

\* factory.select_provider() called directly
SelectProviderCall(rnd) ==
    /\ init_pc = "done"
    /\ Len(selections) < MaxSelections
    /\ LET g == GetAvailableProviders(factory, now)
           s == SelectProvider(factory, now, rnd)
       IN  /\ factory' = s.F
           /\ sel' = s.name
           /\ selections' = Append(selections,
                    [available |-> g.available, name |-> s.name])
    /\ inv' = None
    /\ rec' = NoRecording
    /\ probed' = NoProbe
    /\ returned' = NoReturn
    /\ UNCHANGED <<now, rlvars, cvars, assessed, warm, upstream_call, monitor,
                   enabled, failover_strategy, provider_instances, init_pc,
                   health_checks, requests, counts, breaker_opened>>
(***************************************************************************)
(* CacheService over Redis, and the adapters' cached requests              *)
(***************************************************************************)
\* bounds of the cache specification
MaxCacheOps == 2        \* cache writes, deletes and adapter calls
MaxCacheTicks == 3      \* clock steps
MaxBars == 2            \* bars in an upstream historical series

\* CacheLevel
CacheLevels ==
    {"real_time", "quotes", "profiles", "historical", "search",
     "market_overview", "ai_insights"}

\* CacheService._get_cache_ttls, seconds
cache_ttls ==
    [l \in CacheLevels |->
        CASE l = "real_time" -> 30
          [] l = "quotes" -> 60
          [] l = "profiles" -> 3600
          [] l = "historical" -> 14400
          [] l = "search" -> 900
          [] l = "market_overview" -> 300
          [] l = "ai_insights" -> 1800]

\* the **kwargs of get / set / delete that go into the key: none, or one set
\* of parameters
CacheParams == {"", "interval=1d"}

\* identifiers: a symbol, and the cache keys the adapters build from the
\* endpoint or operation and the symbol
AdapterIdentifiers == {"quote_AAPL", "historical_AAPL"}
CacheIdentifiers == {"AAPL"} \cup AdapterIdentifiers

\* CacheService._make_cache_key: cache:{level}:{provider}:{identifier} and
\* the hash of the parameters, one key per combination
MakeCacheKey(level, provider, identifier, params) ==
    <<level, provider, identifier, params>>

\* the keys callers of CacheService use directly: one per level, and one
\* with parameters
DirectKeys ==
    {MakeCacheKey(l, "fmp", "AAPL", "") : l \in CacheLevels}
        \cup {MakeCacheKey("quotes", "fmp", "AAPL", "interval=1d")}

\* the keys of the adapters' requests
AdapterKeys ==
    {MakeCacheKey("quotes", p, "quote_AAPL", "") : p \in ConcreteAdapters}
        \cup {MakeCacheKey("historical", p, "historical_AAPL", "") :
                    p \in ConcreteAdapters}

\* the operations of an adapter that go through its cached request
\* (YahooFinanceProvider.search_securities answers from a table)
CachedOperations(p) ==
    {"get_stock_quote", "get_stock_profile", "get_historical_data",
     "get_crypto_quote", "get_market_overview"}
        \cup IF p = "fmp" THEN {"search_securities"} ELSE {}

\* FMPProvider.endpoints: the path each operation requests, as its words
FmpEndpoint(op) ==
    CASE op = "get_stock_quote" -> <<"quote">>
      [] op = "get_stock_profile" -> <<"profile">>
      [] op = "get_historical_data" -> <<"historical", "price", "full">>
      [] op = "search_securities" -> <<"search">>
      [] op = "get_crypto_quote" -> <<"quote">>
      [] op = "get_market_overview" ->
            <<"quote", "SPY,QQQ,DIA,BTC-USD,ETH-USD">>

\* word in endpoint
InEndpoint(word, endpoint) == \E i \in 1..Len(endpoint) : endpoint[i] = word

\* FMPProvider._get_cache_level
FmpCacheLevel(endpoint) ==
    IF InEndpoint("quote", endpoint) THEN "quotes"
    ELSE IF InEndpoint("profile", endpoint) THEN "profiles"
    ELSE IF InEndpoint("historical", endpoint) THEN "historical"
    ELSE IF InEndpoint("search", endpoint) THEN "search"
    ELSE "real_time"

\* the operation name each YahooFinanceProvider operation passes to
\* _make_yfinance_request
YahooOperation(op) ==
    IF op = "get_historical_data" THEN "history" ELSE "info"

\* YahooFinanceProvider._get_cache_level
YahooCacheLevel(operation) ==
    CASE operation \in {"info", "quote"} -> "quotes"
      [] operation = "profile" -> "profiles"
      [] operation = "history" -> "historical"
      [] operation = "search" -> "search"
      [] OTHER -> "real_time"

\* the level of the cache entry of operation op of adapter p
CacheLevelOf(p, op) ==
    IF p = "fmp" THEN FmpCacheLevel(FmpEndpoint(op))
    ELSE YahooCacheLevel(YahooOperation(op))

\* the identifier of the entry: FMP's has the endpoint and the parameters,
\* Yahoo's the symbol and the operation name, so that a Yahoo quote and a
\* Yahoo profile of one symbol have the same identifier
CachedIdentifier(p, op) ==
    CASE op = "get_historical_data" -> "historical_AAPL"
      [] op = "get_crypto_quote" -> "quote_BTCUSD"
      [] op = "get_market_overview" -> "quote_overview"
      [] op = "search_securities" -> "search_apple"
      [] op = "get_stock_profile" /\ p = "fmp" -> "profile_AAPL"
      [] OTHER -> "quote_AAPL"

CachedKey(p, op) ==
    MakeCacheKey(CacheLevelOf(p, op), p, CachedIdentifier(p, op), "")

LevelKeys ==
    UNION {{CachedKey(p, op) : op \in CachedOperations(p)} :
                p \in ConcreteAdapters}

CacheKeys == DirectKeys \cup AdapterKeys \cup LevelKeys

\* cached values: dicts and lists, and objects of other types (the pandas
\* DataFrame of a Yahoo history)
NoValue == [type |-> "none", body |-> << >>]
DirectValues == {[type |-> "dict", body |-> <<1>>],
                 [type |-> "dict", body |-> <<2>>]}

\* CacheService.set serialization: json.dumps for a dict or list, str()
\* for everything else
Serialize(data) ==
    IF data.type \in {"dict", "list"}
    THEN [json |-> TRUE, text |-> data]
    ELSE [json |-> FALSE, text |-> [type |-> "str", body |-> data.body]]

\* CacheService.get deserialization: json.loads, or the raw string when it
\* is not JSON
Deserialize(serialized) == serialized.text

\* ttl_override: None, or a number of seconds (0, positive, negative)
NoOverride == [given |-> FALSE, seconds |-> 0]
TtlOverrides ==
    {NoOverride} \cup {[given |-> TRUE, seconds |-> s] : s \in {0, 5, 0 - 1}}

\* ttl = ttl_override or self.cache_ttls[level]
TtlOf(level, ttl_override) ==
    IF ~ttl_override.given \/ ttl_override.seconds = 0
    THEN cache_ttls[level] ELSE ttl_override.seconds

NoEntry == [present |-> FALSE, data |-> Serialize(NoValue), expire_at |-> 0]

\* Redis GET at time t: a key whose expiry instant has come is gone
RedisGet(store, key, t) ==
    IF store[key].present /\ t < store[key].expire_at
    THEN store[key] ELSE NoEntry

\* Redis SETEX at time t: rejects an expiry that is not positive
RedisSetexRejects(ttl) == ttl <= 0

RedisSetex(store, key, ttl, serialized, t) ==
    [store EXCEPT ![key] = [present |-> TRUE, data |-> serialized,
                            expire_at |-> t + ttl]]

\* CacheService.get at time t: the value, or a miss (None)
CacheGetValue(store, key, t) ==
    LET e == RedisGet(store, key, t)
    IN  IF e.present
        THEN [hit |-> TRUE, value |-> Deserialize(e.data)]
        ELSE [hit |-> FALSE, value |-> NoValue]

\* CacheService.set at time t: the store afterwards and the value returned
CacheSetValue(store, key, data, ttl_override, t) ==
    LET ttl == TtlOf(key[1], ttl_override)
    IN  IF RedisSetexRejects(ttl)
        THEN [store |-> store, ok |-> FALSE]
        ELSE [store |-> RedisSetex(store, key, ttl, Serialize(data), t),
              ok |-> TRUE]

NoWrite == [written |-> FALSE, value |-> NoValue, at |-> 0,
            ttl_override |-> NoOverride]

NoCacheRet ==
    [op |-> None, key |-> <<>>, hit |-> FALSE, value |-> NoValue,
     ok |-> FALSE, from_cache |-> FALSE, provider |-> None,
     upstream |-> << >>, response |-> NoResponse, series |-> << >>,
     envelope |-> NoEnvelope]

CacheInit ==
    /\ redis_cache = [k \in CacheKeys |-> NoEntry]
    /\ cache_written = [k \in CacheKeys |-> NoWrite]
    /\ cache_ret = NoCacheRet
    /\ cache_counts = [ops |-> 0, ticks |-> 0]

\* await cache_service.set(level, provider, identifier, data, ttl_override,
\* **params)
CacheSet(key, data, ttl_override) ==
    LET s == CacheSetValue(redis_cache, key, data, ttl_override, now)
    IN  /\ cache_counts.ops < MaxCacheOps
        /\ redis_cache' = s.store
        /\ cache_written' =
                IF s.ok
                THEN [cache_written EXCEPT ![key] =
                        [written |-> TRUE, value |-> data, at |-> now,
                         ttl_override |-> ttl_override]]
                ELSE cache_written
        /\ cache_ret' = [NoCacheRet EXCEPT !.op = "set", !.key = key,
                                           !.ok = s.ok]
        /\ cache_counts' = [cache_counts EXCEPT !.ops = @ + 1]
        /\ UNCHANGED <<now, rlvars, fvars, assessed, wvars>>

\* await cache_service.get(level, provider, identifier, **params), for a
\* key that has been written (live, expired or just deleted)
CacheGet(key) ==
    LET g == CacheGetValue(redis_cache, key, now)
    IN  /\ redis_cache[key].present \/ cache_ret.key = key
        /\ cache_ret' = [NoCacheRet EXCEPT !.op = "get", !.key = key,
                                           !.hit = g.hit, !.value = g.value]
        /\ UNCHANGED <<now, rlvars, fvars, redis_cache, cache_written,
                       cache_counts, assessed, wvars>>

\* await cache_service.delete(level, provider, identifier, **params)
CacheDelete(key) ==
    /\ cache_counts.ops < MaxCacheOps
    /\ redis_cache' = [redis_cache EXCEPT ![key] = NoEntry]
    /\ cache_written' = [cache_written EXCEPT ![key] = NoWrite]
    /\ cache_ret' = [NoCacheRet EXCEPT !.op = "delete", !.key = key,
                        !.ok = RedisGet(redis_cache, key, now).present]
    /\ cache_counts' = [cache_counts EXCEPT !.ops = @ + 1]
    /\ UNCHANGED <<now, rlvars, fvars, assessed, wvars>>

\* the instants at which an entry of the store expires
ExpiryInstants ==
    {redis_cache[k].expire_at : k \in {j \in CacheKeys : redis_cache[j].present}}

\* once something is stored the clock is followed: it moves on by a second,
\* or to the second before an entry expires
CacheTick ==
    /\ cache_counts.ticks < MaxCacheTicks
    /\ ExpiryInstants # {}
    /\ \E t \in {now + 1} \cup {e - 1 : e \in ExpiryInstants} :
            t > now /\ now' = t
    /\ cache_counts' = [cache_counts EXCEPT !.ticks = @ + 1]
    /\ cache_ret' = NoCacheRet
    /\ UNCHANGED <<rlvars, fvars, redis_cache, cache_written, assessed, wvars>>

(***************************************************************************)
(* FMPProvider / YahooFinanceProvider requests through the cache           *)
(***************************************************************************)
\* the adapter operations modelled with their cache
AdapterOperations == {"get_stock_quote", "get_historical_data"}

\* _get_cache_level of the endpoint / operation
AdapterCacheLevel(op) ==
    IF op = "get_stock_quote" THEN "quotes" ELSE "historical"

\* the cache key of _make_request / _make_yfinance_request
AdapterCacheKey(p, op) ==
    MakeCacheKey(AdapterCacheLevel(op), p,
                 IF op = "get_stock_quote" THEN "quote_AAPL"
                                           ELSE "historical_AAPL", "")

\* the orchestrator operation an adapter operation serves
ServedOperation(op) ==
    IF op = "get_stock_quote" THEN "get_quote" ELSE "get_historical_data"

\* the series an upstream can answer with: bars of distinct dates, in any
\* order
UpstreamSeries ==
    UNION {{s \in [1..n -> 1..MaxBars] :
                \A i, j \in 1..n : i # j => s[i] # s[j]} : n \in 1..MaxBars}

\* what the upstream hands to the adapter: nothing usable ("failed": all
\* retries used up), or a payload; FMP answers JSON, yfinance a dict for
\* info and a DataFrame for history
UpstreamAnswers(p, op) ==
    {NoValue} \cup
    IF op = "get_stock_quote"
    THEN {[type |-> "dict", body |-> <<150>>]}
    ELSE {[type |-> IF p = "fmp" THEN "dict" ELSE "frame", body |-> s] :
            s \in UpstreamSeries}

\* the limit of 100 records: FMP keeps the first, Yahoo the last
RecordLimit == 100

LimitRecords(p, s) ==
    IF Len(s) <= RecordLimit THEN s
    ELSE IF p = "fmp" THEN SubSeq(s, 1, RecordLimit)
         ELSE SubSeq(s, Len(s) - RecordLimit + 1, Len(s))

\* get_historical_data: the points built from what _make_request returned,
\* in the order the data has them; a value read back as a string has no
\* rows to iterate (the AttributeError ends in the except branch)
HistoricalPoints(p, data) ==
    IF data.type \in {"dict", "frame"}
    THEN [ok |-> TRUE, points |-> LimitRecords(p, data.body)]
    ELSE [ok |-> FALSE, points |-> << >>]

\* one adapter operation from the rate check to the ProviderResponse, and
\* the envelope get_quote builds when the factory returns that response
AdapterRequest(p, op, allowed, answer, processing_time) ==
    LET key == AdapterCacheKey(p, op)
        g == CacheGetValue(redis_cache, key, now)
        fetched == allowed /\ ~g.hit /\ answer # NoValue
        data == IF g.hit THEN g.value ELSE answer
        s == CacheSetValue(redis_cache, key, answer, NoOverride, now)
        h == IF op = "get_historical_data" /\ data # NoValue
             THEN HistoricalPoints(p, data)
             ELSE [ok |-> data # NoValue, points |-> << >>]
        outcome == IF ~allowed THEN "denied"
                   ELSE IF h.ok THEN "ok" ELSE "failed"
        response == AdapterResponse(p, ServedOperation(op), outcome)
    IN  /\ cache_counts.ops < MaxCacheOps
        /\ redis_cache' = IF fetched THEN s.store ELSE redis_cache
        /\ cache_written' =
                IF fetched /\ s.ok
                THEN [cache_written EXCEPT ![key] =
                        [written |-> TRUE, value |-> answer, at |-> now,
                         ttl_override |-> NoOverride]]
                ELSE cache_written
        /\ cache_ret' =
                [NoCacheRet EXCEPT
                    !.op = op, !.key = key, !.provider = p,
                    !.hit = allowed /\ g.hit,
                    !.from_cache = allowed /\ g.hit,
                    !.value = IF allowed THEN data ELSE NoValue,
                    !.upstream = IF fetched THEN answer.body ELSE << >>,
                    !.response = response,
                    !.series = IF allowed THEN h.points ELSE << >>,
                    !.envelope = IF op = "get_stock_quote"
                                 THEN EnvelopeOf(response, processing_time)
                                 ELSE NoEnvelope]
        /\ cache_counts' = [cache_counts EXCEPT !.ops = @ + 1]
        /\ UNCHANGED <<now, rlvars, fvars, assessed, wvars>>


\* an adapter operation whose request is admitted, misses the cache and is
\* answered with valid data: _make_request caches the answer
AdapterCaches(p, op) ==
    LET key == CachedKey(p, op)
        data == [type |-> "dict", body |-> <<150>>]
        s == CacheSetValue(redis_cache, key, data, NoOverride, now)
    IN  /\ op \in CachedOperations(p)
        /\ cache_counts.ops < MaxCacheOps
        /\ ~CacheGetValue(redis_cache, key, now).hit
        /\ redis_cache' = s.store
        /\ cache_written' =
                [cache_written EXCEPT ![key] =
                    [written |-> TRUE, value |-> data, at |-> now,
                     ttl_override |-> NoOverride]]
        /\ cache_ret' = [NoCacheRet EXCEPT !.op = op, !.key = key,
                                           !.provider = p, !.ok = s.ok]
        /\ cache_counts' = [cache_counts EXCEPT !.ops = @ + 1]
        /\ UNCHANGED <<now, rlvars, fvars, assessed, wvars>>
(***************************************************************************)
(* CacheService.warm_cache                                                 *)
(***************************************************************************)
MaxWarmings == 1

\* warm_cache(warming_config): the keys of its three nested loops, in loop
\* order, for providers ["fmp"], levels [QUOTES, PROFILES], symbols ["AAPL"]
WarmKeys ==
    <<MakeCacheKey("quotes", "fmp", "AAPL", ""),
      MakeCacheKey("profiles", "fmp", "AAPL", "")>>

\* the mock_data warm_cache writes
WarmData == [type |-> "dict", body |-> <<0>>]

NoStats == [success |-> 0, errors |-> 0, skipped |-> 0]

NoWarming ==
    [pc |-> "idle", i |-> 0, stats |-> NoStats, runs |-> 0,
     overwritten |-> {}]

\* warm_cache goes on with key number i, or returns its stats
WarmGoesOn(w, i) ==
    IF i > Len(WarmKeys)
    THEN [w EXCEPT !.pc = "idle", !.i = 0]
    ELSE [w EXCEPT !.pc = "get", !.i = i]

\* await cache_service.warm_cache(warming_config), up to its first get
WarmCacheStart ==
    /\ warm.pc = "idle"
    /\ warm.runs < MaxWarmings
    /\ warm' = WarmGoesOn([warm EXCEPT !.stats = NoStats, !.runs = @ + 1], 1)
    /\ UNCHANGED <<now, rlvars, fvars, cvars, assessed, upstream_call,
                   selections, monitor>>

\* existing = await self.get(level, provider, symbol): a key that holds a
\* value is skipped, for any other the set is next
WarmGet ==
    /\ warm.pc = "get"
    /\ LET g == CacheGetValue(redis_cache, WarmKeys[warm.i], now)
       IN  warm' = IF g.hit
                   THEN WarmGoesOn([warm EXCEPT !.stats.skipped = @ + 1],
                                   warm.i + 1)
                   ELSE [warm EXCEPT !.pc = "set"]
    /\ UNCHANGED <<now, rlvars, fvars, cvars, assessed, upstream_call,
                   selections, monitor>>

\* success = await self.set(level, provider, symbol, mock_data)
WarmWrite(store, key, t) ==
    CacheSetValue(store, key, WarmData, NoOverride, t)

\* the set of warm_cache and the sleep after it
WarmSet ==
    /\ warm.pc = "set"
    /\ LET key == WarmKeys[warm.i]
           s == WarmWrite(redis_cache, key, now)
           held == RedisGet(redis_cache, key, now)
           replaced == held.present /\ s.store[key] # redis_cache[key]
           w == [warm EXCEPT
                    !.stats.success = IF s.ok THEN @ + 1 ELSE @,
                    !.stats.errors = IF s.ok THEN @ ELSE @ + 1,
                    !.overwritten = IF replaced THEN @ \cup {key} ELSE @]
       IN  /\ redis_cache' = s.store
           /\ cache_written' =
                IF s.ok /\ s.store # redis_cache
                THEN [cache_written EXCEPT ![key] =
                        [written |-> TRUE, value |-> WarmData, at |-> now,
                         ttl_override |-> NoOverride]]
                ELSE cache_written
           /\ warm' = WarmGoesOn(w, warm.i + 1)
    /\ UNCHANGED <<now, rlvars, fvars, cache_ret, cache_counts, assessed,
                   upstream_call, selections, monitor>>

(***************************************************************************)
(* The retry loop of _make_request and _make_yfinance_request              *)
(***************************************************************************)
MaxAdapterCalls == 2

\* self._max_retries and self._backoff_base of both adapters
adapter_max_retries == 3
backoff_base == 2

\* the wait of _handle_rate_limit_response for a 429 without a usable
\* Retry-After header
RateLimitWait == 60

\* how one upstream request of an adapter can end.  FMP: a valid body, a
\* 200 with an invalid or undecodable body, 429, 401, another status, or
\* an aiohttp.ClientError.  yfinance: valid data, invalid data, an
\* exception, or an exception that says "delisted" or "not found"
UpstreamResults(p) ==
    IF p = "fmp"
    THEN {"valid", "invalid", "rate_limited", "unauthorized", "server_error",
          "network_error"}
    ELSE {"valid", "invalid", "error", "not_found"}

NoUpstreamCall ==
    [pc |-> "idle", provider |-> None, attempt |-> 0, answers |-> << >>,
     sleeps |-> << >>, success |-> FALSE, error |-> "", calls |-> 0,
     admitted |-> [p \in ConcreteAdapters |-> 0],
     issued |-> [p \in ConcreteAdapters |-> 0]]

\* a variant of the backoff that grows by one second per attempt
BackoffTime_Linear(attempt) == attempt + 1

\* backoff_time = self._backoff_base ** attempt
BackoffTime(attempt) == backoff_base ^ attempt

\* the error of the operation's ProviderResponse when the loop is over
AllRetriesFailed == "request failed after 4 attempts"

\* get_stock_quote up to the first upstream request of _make_request: the
\* rate check, then the cache check
BeginAdapterCall(p, allowed) ==
    LET key == AdapterCacheKey(p, "get_stock_quote")
        g == CacheGetValue(redis_cache, key, now)
        call == [NoUpstreamCall EXCEPT
                    !.provider = p,
                    !.calls = upstream_call.calls + 1,
                    !.admitted = IF allowed
                                 THEN [upstream_call.admitted
                                            EXCEPT ![p] = @ + 1]
                                 ELSE upstream_call.admitted,
                    !.issued = upstream_call.issued]
    IN  /\ upstream_call.pc \in {"idle", "done"}
        /\ upstream_call.calls < MaxAdapterCalls
        /\ upstream_call' =
                IF ~allowed
                THEN [call EXCEPT !.pc = "done",
                                  !.error = "Rate limit exceeded"]
                ELSE IF g.hit
                THEN [call EXCEPT !.pc = "done", !.success = TRUE]
                ELSE [call EXCEPT !.pc = "attempting",
                                  !.issued[p] = @ + 1]
        /\ UNCHANGED <<now, rlvars, fvars, cvars, assessed, warm,
                       selections, monitor>>

RECURSIVE SumOfSleeps(_)
SumOfSleeps(s) == IF s = << >> THEN 0 ELSE Head(s) + SumOfSleeps(Tail(s))

\* one iteration of the retry loop: the upstream's answer, and what follows
\* it up to the next upstream request or the end of the operation
UpstreamAnswered(answer) ==
    LET c == upstream_call
        p == c.provider
        key == AdapterCacheKey(p, "get_stock_quote")
        data == [type |-> "dict", body |-> <<150>>]
        s == CacheSetValue(redis_cache, key, data, NoOverride, now)
        answers == Append(c.answers, answer)
        waited == IF answer = "rate_limited" THEN <<RateLimitWait>> ELSE << >>
        backoff == IF c.attempt < adapter_max_retries
                   THEN <<BackoffTime(c.attempt)>> ELSE << >>
        slept == IF answer \in {"valid", "not_found"} THEN << >>
                 ELSE waited \o backoff
        over == \/ answer \in {"valid", "not_found"}
                \/ c.attempt >= adapter_max_retries
    IN  /\ c.pc = "attempting"
        /\ answer \in UpstreamResults(p)
        /\ upstream_call' =
                [c EXCEPT !.answers = answers,
                          !.sleeps = @ \o slept,
                          !.attempt = IF over THEN @ ELSE @ + 1,
                          !.pc = IF over THEN "done" ELSE "attempting",
                          !.issued[p] = IF over THEN @ ELSE @ + 1,
                          !.success = (answer = "valid"),
                          !.error = IF over /\ answer # "valid"
                                    THEN AllRetriesFailed ELSE ""]
        /\ redis_cache' = IF answer = "valid" THEN s.store ELSE redis_cache
        /\ cache_written' =
                IF answer = "valid" /\ s.ok
                THEN [cache_written EXCEPT ![key] =
                        [written |-> TRUE, value |-> data, at |-> now,
                         ttl_override |-> NoOverride]]
                ELSE cache_written
        /\ now' = now + SumOfSleeps(slept)
        /\ UNCHANGED <<rlvars, fvars, cache_ret, cache_counts, assessed, warm,
                       selections, monitor>>


(***************************************************************************)
(* Health monitoring as a background task (factory.py 624-679).  A task   *)
(* made by asyncio.create_task runs its first step when the event loop    *)
(* reaches it, in the order of creation; a loop that awaits its health    *)
(* checks or its sleep goes on when the event loop wakes it.              *)
(***************************************************************************)

\* bound of the monitoring specification
MaxMonitorTasks == 3   \* tasks created by start_health_monitoring

\* no task yet: _health_monitoring_active = False, _health_check_tasks = {}
\* (registered = 0: there is no "monitor" entry)
NoMonitor == [active |-> FALSE, tasks |-> << >>, registered |-> 0]

\* the task asyncio.create_task(self.run_health_monitoring()) returns.
\* pc       : "created", "looping" (inside the while loop, awaiting the
\*            health checks or the sleep) or "done"
\* cancel   : task.cancel() was called and not yet delivered
\* stopped  : stop_health_monitoring was called while the task was looping
\* outlived : the loop went on after such a call
NewMonitorTask ==
    [pc |-> "created", cancel |-> FALSE, stopped |-> FALSE,
     outlived |-> FALSE]

\* start_health_monitoring: the condition under which it creates a task
StartAllowed(m) == ~m.active

\* start_health_monitoring(): with the flag clear, a task is created and
\* stored under the key "monitor", replacing the entry that was there
StartHealthMonitoring ==
    /\ Len(monitor.tasks) < MaxMonitorTasks
    /\ StartAllowed(monitor)
    /\ monitor' = [monitor EXCEPT
            !.tasks = Append(@, NewMonitorTask),
            !.registered = Len(monitor.tasks) + 1]
    /\ UNCHANGED <<now, rlvars, fvars, cvars, assessed, warm, upstream_call,
                   selections>>

\* stop_health_monitoring(): the flag is cleared, every task in
\* _health_check_tasks that is not done is cancelled, the dict is cleared
StopHealthMonitoring ==
    /\ monitor' = [monitor EXCEPT
            !.active = FALSE,
            !.tasks = [i \in 1..Len(monitor.tasks) |->
                [monitor.tasks[i] EXCEPT
                    !.cancel = IF /\ i = monitor.registered
                                  /\ monitor.tasks[i].pc # "done"
                               THEN TRUE ELSE @,
                    !.stopped = IF monitor.tasks[i].pc = "looping"
                                THEN TRUE ELSE @]],
            !.registered = 0]
    /\ UNCHANGED <<now, rlvars, fvars, cvars, assessed, warm, upstream_call,
                   selections>>

\* the first step of run_health_monitoring in task i.  A task cancelled
\* before its first step never runs the body; with the flag set the
\* coroutine returns at once; otherwise it sets the flag and enters the loop
RunHealthMonitoringStarts(i) ==
    /\ i \in 1..Len(monitor.tasks)
    /\ monitor.tasks[i].pc = "created"
    /\ \A j \in 1..(i - 1) : monitor.tasks[j].pc # "created"
    /\ monitor' =
            IF monitor.tasks[i].cancel \/ monitor.active
            THEN [monitor EXCEPT !.tasks[i].pc = "done",
                                 !.tasks[i].cancel = FALSE]
            ELSE [monitor EXCEPT !.active = TRUE,
                                 !.tasks[i].pc = "looping"]
    /\ UNCHANGED <<now, rlvars, fvars, cvars, assessed, warm, upstream_call,
                   selections>>

\* the loop of task i is woken from its await and tests the flag: it goes
\* round again, or leaves the loop and the finally clause clears the flag
MonitorLoopWakes(i) ==
    /\ i \in 1..Len(monitor.tasks)
    /\ monitor.tasks[i].pc = "looping"
    /\ ~monitor.tasks[i].cancel
    /\ monitor' =
            IF monitor.active
            THEN [monitor EXCEPT !.tasks[i].outlived =
                                        @ \/ monitor.tasks[i].stopped]
            ELSE [monitor EXCEPT !.active = FALSE,
                                 !.tasks[i].pc = "done"]
    /\ UNCHANGED <<now, rlvars, fvars, cvars, assessed, warm, upstream_call,
                   selections>>

\* the cancellation reaches task i at its await: CancelledError is caught
\* and the finally clause clears the flag
MonitorLoopCancelled(i) ==
    /\ i \in 1..Len(monitor.tasks)
    /\ monitor.tasks[i].pc = "looping"
    /\ monitor.tasks[i].cancel
    /\ monitor' = [monitor EXCEPT !.active = FALSE,
                                  !.tasks[i].pc = "done",
                                  !.tasks[i].cancel = FALSE]
    /\ UNCHANGED <<now, rlvars, fvars, cvars, assessed, warm, upstream_call,
                   selections>>
(***************************************************************************)
(* MarketDataService assessments: quality, anomalies, provenance           *)
(***************************************************************************)
NoAssessment == [kind |-> None]

\* the keys a payload can have; a key whose text contains "price" makes
\* str(data) contain it
PayloadKeys == {"symbol", "price", "volume", "price_target"}
KeyMentionsPrice(k) == k \in {"price", "price_target"}

\* payloads: the keys present, and those of them whose value is None
Payloads ==
    {payload \in [keys : SUBSET PayloadKeys, nulls : SUBSET {"symbol", "price"}] :
        payload.nulls \subseteq payload.keys}

\* what _calculate_data_quality looks at: the keys with a value that is
\* not None, and "price" in str(data)
PayloadView(payload) ==
    [fields |-> payload.keys \ payload.nulls,
     mentions_price |-> \E k \in payload.keys : KeyMentionsPrice(k)]

\* processing times, in units of 10^-8 second
RequestTimes == {0, 70000016, Seconds(1), Seconds(6)}

\* get_quote assesses the payload of a successful response
AssessQuality(payload, p, request_time, cache_hit) ==
    /\ assessed' =
            [kind |-> "quality", payload |-> payload, provider |-> p,
             request_time |-> request_time, cache_hit |-> cache_hit,
             quality |-> CalculateDataQuality(PayloadView(payload), p,
                                              request_time, cache_hit)]
    /\ UNCHANGED <<now, rlvars, fvars, cvars, wvars>>

(***************************************************************************)
(* _detect_anomalies                                                       *)
(***************************************************************************)
anomaly_detection_enabled == TRUE
price_change_threshold == 20        \* percent
volume_spike_threshold == 5

\* a key that the data does not have
Absent == 0 - 1000000

Abs(x) == IF x < 0 THEN 0 - x ELSE x
Min(a, b) == IF a <= b THEN a ELSE b

RECURSIVE SumOf(_)
SumOf(s) == IF s = << >> THEN 0 ELSE Head(s) + SumOf(Tail(s))

\* statistics.mean as the fraction num / den, 0.0 for an empty list
MeanOf(s) ==
    IF s = << >> THEN [num |-> 0, den |-> 1]
    ELSE [num |-> SumOf(s), den |-> Len(s)]

\* a variant of the price change check that also flags a change equal to
\* the threshold
ExtremePriceChange_Inclusive(data) ==
    LET change == Abs(data.change_percent)
    IN  IF /\ data.change_percent # Absent
           /\ change >= 10 * price_change_threshold
        THEN [types |-> <<"extreme_price_change">>,
              scores |-> <<Min(10000,
                               (change * 500) \div price_change_threshold)>>]
        ELSE [types |-> << >>, scores |-> << >>]

\* the price change check: change_percent in tenths of a percent, the
\* confidence min(100, |change| / threshold * 50) in hundredths
ExtremePriceChange(data) ==
    LET change == Abs(data.change_percent)
    IN  IF /\ data.change_percent # Absent
           /\ change > 10 * price_change_threshold
        THEN [types |-> <<"extreme_price_change">>,
              scores |-> <<Min(10000,
                               (change * 500) \div price_change_threshold)>>]
        ELSE [types |-> << >>, scores |-> << >>]

\* the volume spike check against the mean of the last 30 volumes; the
\* type is appended before the confidence is computed, and a zero mean
\* ends the check in the except branch
VolumeSpike(data, historical_data) ==
    LET last == IF Len(historical_data) <= 30 THEN historical_data
                ELSE SubSeq(historical_data, Len(historical_data) - 29,
                            Len(historical_data))
        total == SumOf(last)
    IN  IF /\ data.volume # Absent
           /\ last # << >>
           /\ data.volume * Len(last) > total * volume_spike_threshold
        THEN [types |-> <<"volume_spike">>,
              scores |-> IF total = 0 THEN << >>
                         ELSE <<Min(10000,
                                    (data.volume * Len(last) * 5000)
                                        \div (total * volume_spike_threshold))>>]
        ELSE [types |-> << >>, scores |-> << >>]

\* a variant of the consistency check that looks at the price only
PriceInconsistency_PriceOnly(data) ==
    IF /\ data.price # Absent /\ data.open # Absent
       /\ data.high # Absent /\ data.low # Absent
       /\ ~(data.low <= data.price /\ data.price <= data.high)
    THEN [types |-> <<"price_inconsistency">>, scores |-> <<9000>>]
    ELSE [types |-> << >>, scores |-> << >>]

\* the consistency check of price, open, high and low
PriceInconsistency(data) ==
    IF /\ data.price # Absent /\ data.open # Absent
       /\ data.high # Absent /\ data.low # Absent
       /\ ~(/\ data.low <= data.price /\ data.price <= data.high
            /\ data.low <= data.open /\ data.open <= data.high)
    THEN [types |-> <<"price_inconsistency">>, scores |-> <<9000>>]
    ELSE [types |-> << >>, scores |-> << >>]

\* MarketDataService._detect_anomalies
DetectAnomalies(data, historical_data) ==
    IF ~anomaly_detection_enabled
    THEN [has_anomalies |-> FALSE, anomaly_types |-> << >>,
          confidence_scores |-> << >>, confidence_score |-> MeanOf(<< >>)]
    ELSE LET a == ExtremePriceChange(data)
             b == VolumeSpike(data, historical_data)
             c == PriceInconsistency(data)
             types == a.types \o b.types \o c.types
             scores == a.scores \o b.scores \o c.scores
         IN  [has_anomalies |-> Len(types) > 0,
              anomaly_types |-> types,
              confidence_scores |-> scores,
              confidence_score |-> MeanOf(scores)]

\* the quotes assessed: change_percent in tenths of a percent.  get_quote
\* passes no historical data; the volume check is reached by callers of
\* _detect_anomalies that do
ChangePercents == {Absent, 0 - 250, 0, 200, 201, 400, 450}

PriceQuotes ==
    [change_percent : ChangePercents, price : {1, 2, 3}, open : {1, 2, 3},
     high : {2, 3}, low : {Absent, 1, 2}, volume : {Absent}]

VolumeQuotes ==
    [change_percent : {0, 300}, price : {2}, open : {2}, high : {3},
     low : {1}, volume : {Absent, 10, 60}]

Histories == {<<0>>, <<10>>, <<10, 2>>}

QuoteCases ==
    [data : PriceQuotes, historical_data : {<< >>}]
        \cup [data : VolumeQuotes, historical_data : Histories]

\* get_quote looks for anomalies in the payload of a successful response
AssessAnomalies(data, historical_data) ==
    /\ assessed' = [kind |-> "anomalies", data |-> data,
                    historical_data |-> historical_data,
                    detection |-> DetectAnomalies(data, historical_data)]
    /\ UNCHANGED <<now, rlvars, fvars, cvars, wvars>>

(***************************************************************************)
(* YahooFinanceProvider.get_market_overview                                *)
(***************************************************************************)
\* the symbols of the fan-out, by category, in the order of the dict
OverviewSymbols ==
    [indices |-> <<"^GSPC", "^IXIC", "^DJI">>,
     crypto |-> <<"BTC-USD", "ETH-USD">>]

AllOverviewSymbols == {"^GSPC", "^IXIC", "^DJI", "BTC-USD", "ETH-USD"}

\* how the fetch of one symbol can end: "ok", ticker info that
\* _standardize_quote_data can convert; "unusable", ticker info with a
\* field it cannot convert (float(None)); "failed", _make_yfinance_request
\* raises (rate limit, all retries failed)
FetchOutcomes == {"ok", "unusable", "failed"}

\* _standardize_quote_data: the quote item, or {} from its except branch
StandardizeQuoteData(symbol, outcome) ==
    IF outcome = "ok"
    THEN [symbol |-> symbol, standardized |-> TRUE]
    ELSE [symbol |-> None, standardized |-> FALSE]

\* the inner loop of get_market_overview: the items appended for one
\* category; a symbol whose fetch raises is passed over
RECURSIVE CategoryItems(_, _)
CategoryItems(symbol_list, fetch) ==
    IF symbol_list = << >> THEN << >>
    ELSE LET symbol == Head(symbol_list)
             rest == CategoryItems(Tail(symbol_list), fetch)
         IN  IF fetch[symbol] = "failed" THEN rest
             ELSE <<StandardizeQuoteData(symbol, fetch[symbol])>> \o rest

\* await yahoo.get_market_overview(), the fetch of every symbol ending as
\* fetch says
GetMarketOverview(fetch) ==
    /\ assessed' =
            [kind |-> "overview", fetch |-> fetch,
             response |->
                [success |-> TRUE, provider |-> "yahoo", cached |-> FALSE,
                 data |-> [c \in {"indices", "crypto"} |->
                                CategoryItems(OverviewSymbols[c], fetch)]]]
    /\ UNCHANGED <<now, rlvars, fvars, cvars, wvars>>

(***************************************************************************)
(* Specifications                                                          *)
(***************************************************************************)
\* the limiter on its own: the factory is the one MarketDataService builds
RLInit ==
    /\ now = 0
    /\ LimiterInit
    /\ enabled = AllEnabled
    /\ failover_strategy = "health_based"
    /\ FactoryInit
    /\ CacheInit
    /\ assessed = NoAssessment
    /\ warm = NoWarming
    /\ upstream_call = NoUpstreamCall
    /\ selections = << >>
    /\ monitor = NoMonitor

Init ==
    /\ now = 0
    /\ LimiterInit
    /\ \E c \in Configurations :
            failover_strategy = c[1] /\ enabled = c[2]
    /\ FactoryInit
    /\ CacheInit
    /\ assessed = NoAssessment
    /\ warm = NoWarming
    /\ upstream_call = NoUpstreamCall
    /\ selections = << >>
    /\ monitor = NoMonitor

\* the operation callers ask for while the monitor and resets interfere
QuoteOperations == {"get_quote"}

\* orchestrator operations of every kind, concurrently
Next ==
    \/ InitializeAllProviders
    \/ \E outcome \in {"ok", "failed", "raised"} :
            InitializeProviderChecked(outcome)
    \/ \E r \in Requests, op \in Operations, rnd \in Providers :
            StartRequest(r, op, rnd)
    \/ \E r \in Requests, outcome \in ConcreteOutcomes :
            AdapterReturns(r, outcome)
    \/ \E r \in Requests, rnd \in Providers : AdapterTimesOut(r, rnd)
    \/ \E r \in Requests, rnd \in Providers : AdapterRaisesRateLimit(r, rnd)
    \/ \E r \in Requests, rnd \in Providers : AdapterRaises(r, rnd)
    \/ GetFactoryStatus
    \/ Tick

Spec == Init /\ [][Next]_vars

\* the adapter operation awaited by frame r under asyncio.wait_for ends: it
\* returns, raises, or the timeout fires
AttemptEnds(r) ==
    \/ \E outcome \in ConcreteOutcomes : AdapterReturns(r, outcome)
    \/ \E rnd \in Providers : AdapterTimesOut(r, rnd)
    \/ \E rnd \in Providers : AdapterRaisesRateLimit(r, rnd)
    \/ \E rnd \in Providers : AdapterRaises(r, rnd)

\* one caller at a time asks for quotes.  The event loop resumes a
\* get_with_failover whose wait_for is over, and wait_for ends no later
\* than global_timeout after it began
SerialNext ==
    \/ InitializeAllProviders
    \/ \E outcome \in {"ok", "failed", "raised"} :
            InitializeProviderChecked(outcome)
    \/ \E rnd \in Providers : StartRequest(1, "get_quote", rnd)
    \/ AttemptEnds(1)
    \/ Tick

SpecLive == Init /\ [][SerialNext]_vars /\ WF_vars(AttemptEnds(1))

\* quote requests, concurrently with health probes, status reads and
\* statistics resets
FactoryNext ==
    \/ InitializeAllProviders
    \/ \E outcome \in {"ok", "failed", "raised"} :
            InitializeProviderChecked(outcome)
    \/ \E due \in SUBSET Providers : HealthMonitorRound(due)
    \/ \E p \in Providers, outcome \in {"ok", "failed", "raised"} :
            HealthCheckDone(p, outcome)
    \/ \E r \in Requests, op \in QuoteOperations, rnd \in Providers :
            StartRequest(r, op, rnd)
    \/ \E r \in Requests, outcome \in ConcreteOutcomes :
            AdapterReturns(r, outcome)
    \/ \E r \in Requests, rnd \in Providers : AdapterTimesOut(r, rnd)
    \/ \E r \in Requests, rnd \in Providers : AdapterRaisesRateLimit(r, rnd)
    \/ \E r \in Requests, rnd \in Providers : AdapterRaises(r, rnd)
    \/ GetFactoryStatus
    \/ ResetStatistics
    \/ Tick

SpecFactory == Init /\ [][FactoryNext]_vars


\* CacheService and its callers
CacheNext ==
    \/ \E k \in DirectKeys, d \in DirectValues, o \in TtlOverrides :
            CacheSet(k, d, o)
    \/ \E k \in DirectKeys : CacheGet(k)
    \/ \E k \in DirectKeys : CacheDelete(k)
    \/ CacheTick

SpecCache == RLInit /\ [][CacheNext]_vars

\* the adapters' requests through the cache
AdapterNext ==
    \/ \E p \in ConcreteAdapters, op \in AdapterOperations,
          allowed \in BOOLEAN, processing_time \in 0..1 :
            \E answer \in UpstreamAnswers(p, op) :
                AdapterRequest(p, op, allowed, answer, processing_time)
    \/ \E k \in AdapterKeys : CacheGet(k)
    \/ CacheTick

SpecAdapter == RLInit /\ [][AdapterNext]_vars

\* the cached operations of both adapters, and reads of their entries
LevelsNext ==
    \/ \E p \in ConcreteAdapters, op \in CachedOperations("fmp") :
            AdapterCaches(p, op)
    \/ \E k \in LevelKeys : CacheGet(k)
    \/ CacheTick

SpecLevels == RLInit /\ [][LevelsNext]_vars

\* a factory built with the round_robin strategy, all three providers
\* registered, yahoo enabled or not
RotationInit ==
    /\ now = 0
    /\ LimiterInit
    /\ failover_strategy = "round_robin"
    /\ enabled \in {AllEnabled, YahooDisabled}
    /\ FactoryInit
    /\ CacheInit
    /\ assessed = NoAssessment
    /\ warm = NoWarming
    /\ upstream_call = NoUpstreamCall
    /\ selections = << >>
    /\ monitor = NoMonitor

\* select_provider calls while the health monitor changes the statuses
RotationNext ==
    \/ InitializeAllProviders
    \/ \E outcome \in {"ok", "failed", "raised"} :
            InitializeProviderChecked(outcome)
    \/ \E due \in SUBSET Providers : HealthMonitorRound(due)
    \/ \E p \in Providers, outcome \in {"ok", "failed", "raised"} :
            HealthCheckDone(p, outcome)
    \/ \E rnd \in Providers : SelectProviderCall(rnd)

SpecRotation == RotationInit /\ [][RotationNext]_vars

\* the monitoring task of a factory: calls of start_health_monitoring and
\* stop_health_monitoring, and the steps the event loop gives the tasks
MonitorNext ==
    \/ StartHealthMonitoring
    \/ StopHealthMonitoring
    \/ \E i \in 1..MaxMonitorTasks : RunHealthMonitoringStarts(i)
    \/ \E i \in 1..MaxMonitorTasks : MonitorLoopWakes(i)
    \/ \E i \in 1..MaxMonitorTasks : MonitorLoopCancelled(i)

SpecMonitor == RLInit /\ [][MonitorNext]_vars

\* the assessments an operation makes of a successful response
AssessNext ==
    \/ \E payload \in Payloads, p \in Providers \cup {"premium"},
          request_time \in RequestTimes, cache_hit \in BOOLEAN :
            AssessQuality(payload, p, request_time, cache_hit)
    \/ \E q \in QuoteCases :
            AssessAnomalies(q.data, q.historical_data)

SpecAssess == RLInit /\ [][AssessNext]_vars

\* warm_cache while other coroutines set, read and delete the same keys
WarmNext ==
    \/ WarmCacheStart
    \/ WarmGet
    \/ WarmSet
    \/ \E i \in 1..Len(WarmKeys), data \in DirectValues :
            CacheSet(WarmKeys[i], data, NoOverride)
    \/ \E i \in 1..Len(WarmKeys) : CacheDelete(WarmKeys[i])
    \/ CacheTick

SpecWarm == RLInit /\ [][WarmNext]_vars

\* adapter operations one after another, each with its retry loop
RetryNext ==
    \/ \E p \in ConcreteAdapters, allowed \in BOOLEAN :
            BeginAdapterCall(p, allowed)
    \/ \E answer \in UpstreamResults("fmp") \cup UpstreamResults("yahoo") :
            UpstreamAnswered(answer)

SpecRetry == RLInit /\ [][RetryNext]_vars

\* market overviews of the free adapter, one after another
OverviewNext ==
    \E fetch \in [AllOverviewSymbols -> FetchOutcomes] :
        GetMarketOverview(fetch)

SpecOverview == RLInit /\ [][OverviewNext]_vars
RLNext ==
    \/ \E c \in Callers, p \in RLProviders : IsAllowedCall(c, p)
    \/ \E c \in Callers : IsAllowedWindow(c)
    \/ \E c \in Callers : IsAllowedBurst(c)
    \/ TickRL
    \/ IdleRL

SpecRL == RLInit /\ [][RLNext]_vars

\* the admitted calls of provider p whose time lies in [a, a + W)
AdmittedIn(p, a, w) ==
    {i \in 1..Len(rl_log) :
        /\ rl_log[i].provider = p
        /\ rl_log[i].allowed
        /\ a <= rl_log[i].time
        /\ rl_log[i].time < a + WindowSeconds(w)}

WindowLimitRespected ==
    \A p \in RLProviders, w \in Windows, a \in 0..now :
        Cardinality(AdmittedIn(p, a, w)) <= WindowLimit(p, w)

\* C1: in any sequence of is_allowed(p, e) calls, the calls admitted inside
\* any W-second interval number at most the limit configured for W, also
\* when several calls fall into the same clock second.
C1_AdmittedWithinLimit == WindowLimitRespected

\* C2: when is_allowed calls run concurrently and their per-window batches
\* interleave, the calls admitted in any window still never exceed the limit.
C2_ConcurrentAdmittedWithinLimit ==
    (\E i \in 1..Len(rl_log) : rl_log[i].conc /\ rl_log[i].allowed)
        => WindowLimitRespected

(***************************************************************************)
(* Claims about the factory and the orchestrator                           *)
(***************************************************************************)
\* the providers select_provider returned or get_with_failover invoked in
\* the step just taken
JustChosen == {sel, inv} \ {None}

\* the last entry of a frame's trail
LastAttempt(trail) == trail[Len(trail)]

\* C3: once a provider's consecutive_failures has reached its
\* circuit_breaker_threshold its breaker is open, and no get_with_failover
\* call selects or invokes the provider before circuit_breaker_timeout
\* seconds have passed since the breaker opened, whatever requests,
\* completions of in-flight calls, health checks, status reads and
\* reset_statistics calls happen in between.
C3_OpenBreakerKeepsProviderOut ==
    /\ \A p \in Providers :
          factory.provider_configs[p].consecutive_failures
                >= CircuitBreakerThreshold
            => factory.provider_configs[p].circuit_breaker_opened_at # NoTime
    /\ \A p \in JustChosen :
          \/ breaker_opened[p] = NoTime
          \/ now - breaker_opened[p] >= CircuitBreakerTimeout

\* C3 witness: a provider that is enabled and healthy has reached the
\* threshold, its breaker opened less than the timeout ago, and a
\* get_with_failover call has just selected and invoked another provider.
C3_Witness ==
    \E p \in Providers :
        /\ enabled[p]
        /\ factory.provider_configs[p].status = "healthy"
        /\ factory.provider_configs[p].consecutive_failures
                >= CircuitBreakerThreshold
        /\ factory.provider_configs[p].circuit_breaker_opened_at # NoTime
        /\ now - factory.provider_configs[p].circuit_breaker_opened_at
                < CircuitBreakerTimeout
        /\ sel \in Providers \ {p}
        /\ inv \in Providers \ {p}

\* C4: get_with_failover only ever returns a successful ProviderResponse
\* (an unsuccessful outcome of the selected adapter makes it try another
\* provider instead of returning the unsuccessful response).
C4_ReturnsOnlySuccessfulResponses ==
    returned.kind = "response" => returned.result.success

\* C5: a provider that select_provider returns, and a provider that
\* get_with_failover invokes an operation on, is at that moment enabled,
\* has status healthy or degraded, has its circuit breaker not open and has
\* an initialized adapter instance.
C5_ChosenProviderIsAvailable ==
    \A p \in JustChosen :
        /\ enabled[p]
        /\ factory.provider_configs[p].status \in {"healthy", "degraded"}
        /\ \/ factory.provider_configs[p].circuit_breaker_opened_at = NoTime
           \/ now - factory.provider_configs[p].circuit_breaker_opened_at
                >= CircuitBreakerTimeout
        /\ p \in provider_instances

\* C5 witness: a provider has just been invoked while one registered
\* provider is disabled and another one is unhealthy.
C5_Witness ==
    /\ inv \in Providers
    /\ \E q \in Providers \ {inv} : ~enabled[q]
    /\ \E q \in Providers \ {inv} :
            factory.provider_configs[q].status = "unhealthy"

\* C6: when the first provider chosen in a get_with_failover call times
\* out and a second provider then succeeds, the call returns the second
\* provider's response; recording the timeout raises the first provider's
\* consecutive_failures and failed_requests by exactly 1 each and the
\* factory's failover_count by exactly 1, and the success adds nothing to
\* failover_count.
C6_TimeoutThenSuccess ==
    /\ (rec.outcome = "timeout" /\ rec.attempt = 0) =>
          /\ rec.after.consecutive_failures
                = rec.before.consecutive_failures + 1
          /\ rec.after.failed_requests = rec.before.failed_requests + 1
          /\ rec.failover_after = rec.failover_before + 1
    /\ rec.outcome = "returned" => rec.failover_after = rec.failover_before
    /\ (/\ returned.kind = "response"
        /\ Len(returned.trail) = 2
        /\ returned.trail[1].outcome = "timeout") =>
          /\ returned.trail[2].provider # returned.trail[1].provider
          /\ returned.result.provider = returned.trail[2].provider

\* C6 witness: a call whose first provider timed out has just returned the
\* successful response of its second provider.
C6_Witness ==
    /\ returned.kind = "response"
    /\ Len(returned.trail) = 2
    /\ returned.trail[1].outcome = "timeout"
    /\ returned.result.success
    /\ rec.outcome = "returned"
    /\ rec.attempt = 1

\* the response of an adapter whose call the rate limiter denied
DeniedByLimiter(response) ==
    ~response.success /\ response.error = "Rate limit exceeded"

\* C7: when the rate limiter denies the call for the selected provider, the
\* request is either satisfied by another provider via failover or fails
\* with a rate-limited error carrying retry_after > 0, and the denied
\* provider's status, consecutive_failures and circuit breaker are
\* unchanged.
C7_DenialFailsOverOrReportsRateLimit ==
    (returned.kind = "response" /\ DeniedByLimiter(returned.result)) =>
        /\ \/ returned.envelope.success
           \/ /\ returned.raised.type = "DataProviderRateLimitError"
              /\ returned.raised.retry_after > 0
        /\ rec.after.status = rec.before.status
        /\ rec.after.consecutive_failures = rec.before.consecutive_failures
        /\ rec.after.circuit_breaker_opened_at
                = rec.before.circuit_breaker_opened_at

\* C8: when a get_with_failover call returns a result, at that moment the
\* factory's last-used provider is the provider whose adapter produced the
\* response, and recording the outcome raised that provider's
\* successful_requests by exactly 1, also with other requests in flight.
C8_ReturnRecordsProducer ==
    returned.kind = "response" =>
        /\ rec.outcome = "returned"
        /\ rec.provider = LastAttempt(returned.trail).provider
        /\ returned.result.provider = rec.provider
        /\ factory.last_used_provider = rec.provider
        /\ rec.after.successful_requests
                = rec.before.successful_requests + 1
        /\ factory.provider_configs[rec.provider].successful_requests
                = rec.after.successful_requests

\* C8 witness: a call has just returned a response while another request
\* is in flight, and that other request was in flight on the same provider.
C8_Witness ==
    /\ returned.kind = "response"
    /\ \E r \in Requests :
            /\ requests[r].pc = "inflight"
            /\ requests[r].provider = rec.provider

\* C9: when an adapter operation raises a rate-limit error inside
\* get_with_failover, the provider's total_requests, successful_requests,
\* failed_requests, consecutive_failures and circuit_breaker_opened_at are
\* left unchanged, the provider counts as attempted for this call, and the
\* loop goes on to its next attempt (which invokes a provider not yet
\* attempted, or ends the call with an error when there is none).
C9_RateLimitErrorLeavesStatistics ==
    rec.outcome = "rate_limit" =>
        /\ rec.after.total_requests = rec.before.total_requests
        /\ rec.after.successful_requests = rec.before.successful_requests
        /\ rec.after.failed_requests = rec.before.failed_requests
        /\ rec.after.consecutive_failures = rec.before.consecutive_failures
        /\ rec.after.circuit_breaker_opened_at
                = rec.before.circuit_breaker_opened_at
        /\ \/ /\ requests[rec.request].pc = "inflight"
              /\ rec.provider \in AttemptedProviders(requests[rec.request].trail)
              /\ requests[rec.request].attempt = rec.attempt + 1
              /\ requests[rec.request].provider
                    \notin AttemptedProviders(requests[rec.request].trail)
           \/ /\ returned.kind = "raise"
              /\ rec.provider \in AttemptedProviders(returned.trail)

\* C9 witness: a rate-limit error has just been recorded and the call has
\* gone on to invoke another provider.
C9_Witness ==
    /\ rec.outcome = "rate_limit"
    /\ requests[rec.request].pc = "inflight"
    /\ requests[rec.request].provider # rec.provider

\* C10: whenever the factory raises an error or returns an unsuccessful
\* response, the orchestrator operation (get_quote, get_profile,
\* get_historical_data, search_securities, get_market_overview) returns an
\* envelope with success=false, no data, a non-empty error message, all
\* five quality scores 0 and quality level unreliable.
C10_FailureEnvelope ==
    (returned.kind = "raise"
        \/ (returned.kind = "response" /\ ~returned.result.success)) =>
        /\ returned.op \in Operations
        /\ returned.envelope.success = FALSE
        /\ returned.envelope.data = None
        /\ returned.envelope.error \notin {None, ""}
        /\ returned.envelope.data_quality.completeness_score = 0
        /\ returned.envelope.data_quality.freshness_score = 0
        /\ returned.envelope.data_quality.accuracy_score = 0
        /\ returned.envelope.data_quality.consistency_score = 0
        /\ returned.envelope.data_quality.overall_score = 0
        /\ returned.envelope.data_quality.quality_level = "unreliable"

\* C10 witness: get_market_overview has just ended on an unsuccessful
\* response of the adapter.
C10_Witness ==
    /\ returned.op = "get_market_overview"
    /\ returned.kind = "response"
    /\ ~returned.result.success
    /\ returned.envelope.success = FALSE


\* C11: whenever an adapter serves a request from the cache instead of the
\* upstream, its ProviderResponse carries metadata.cached = true, and the
\* orchestrator's envelope for that request has provenance.cache_hit = true
\* and a freshness_score strictly below 100.
C11_CacheHitIsReported ==
    (cache_ret.from_cache /\ cache_ret.response.success) =>
        /\ cache_ret.response.cached
        /\ cache_ret.op = "get_stock_quote" =>
                /\ cache_ret.envelope.cache_hit
                /\ cache_ret.envelope.data_quality.freshness_score < Points(100)

\* the TTL table of the cache levels, seconds
LevelTtl(level) ==
    CASE level = "real_time" -> 30
      [] level = "quotes" -> 60
      [] level = "profiles" -> 3600
      [] level = "historical" -> 14400
      [] level = "search" -> 900
      [] level = "market_overview" -> 300
      [] level = "ai_insights" -> 1800

\* the TTL an entry was written with: the ttl_override when one was given,
\* or the TTL of its level
WrittenTtl(key) ==
    IF cache_written[key].ttl_override.given
    THEN cache_written[key].ttl_override.seconds
    ELSE LevelTtl(key[1])

\* the key just read has been written, and not deleted since
ReadOfWrittenEntry ==
    /\ cache_ret.op = "get"
    /\ cache_written[cache_ret.key].written

\* the entry just read is returned before its TTL has elapsed and is a
\* miss after it
LivesForWrittenTtl ==
    LET w == cache_written[cache_ret.key]
        T == WrittenTtl(cache_ret.key)
    IN  /\ now < w.at + T => cache_ret.hit /\ cache_ret.value = w.value
        /\ now > w.at + T => ~cache_ret.hit

\* C12: an entry written by CacheService.set at level L without
\* ttl_override is returned by get (same level, provider, identifier,
\* params) at every time before L's TTL has elapsed and is a miss at every
\* time after it (real_time 30, quotes 60, profiles 3600, historical 14400,
\* search 900, market_overview 300, ai_insights 1800 seconds); with a
\* ttl_override T the same holds with T in place of the level's TTL.
C12_EntryLivesForItsTtl == ReadOfWrittenEntry => LivesForWrittenTtl

\* what does hold: the same for every entry written without an override or
\* with a positive one
NonZeroTtlEntryLivesForItsTtl ==
    (/\ ReadOfWrittenEntry
     /\ ~(/\ cache_written[cache_ret.key].ttl_override.given
          /\ cache_written[cache_ret.key].ttl_override.seconds = 0))
        => LivesForWrittenTtl

\* C13: for every provider, in every reachable state total_requests =
\* successful_requests + failed_requests, and after any interleaving of
\* concurrent get_with_failover calls no increment is lost: each counter
\* equals the number of outcomes of its kind recorded since the last
\* reset_statistics.
C13_NoLostIncrement ==
    \A p \in Providers :
        LET c == factory.provider_configs[p]
        IN  /\ c.total_requests = c.successful_requests + c.failed_requests
            /\ c.successful_requests = counts.recorded[p].successes
            /\ c.failed_requests = counts.recorded[p].failures

\* C13 witness: two calls are in flight at once on a provider that has a
\* success and a failure on record
C13_Witness ==
    \E p \in Providers :
        /\ \A r \in Requests : requests[r].pc = "inflight"
        /\ factory.provider_configs[p].successful_requests > 0
        /\ factory.provider_configs[p].failed_requests > 0

(***************************************************************************)
(* Claims about the assessments                                            *)
(***************************************************************************)
\* round(x, 6) of a score in units of 10^-7 point
Round6(x) == ((x + 5) \div 10) * 10

\* the threshold of a quality level
LevelThreshold(level) ==
    CASE level = "excellent" -> Points(95)
      [] level = "good" -> Points(85)
      [] level = "fair" -> Points(70)
      [] level = "poor" -> Points(50)
      [] level = "unreliable" -> 0

QualityLevels == {"excellent", "good", "fair", "poor", "unreliable"}

\* the level with the highest threshold that is at most the score
IsLevelOf(level, score) ==
    /\ LevelThreshold(level) <= score
    /\ \A l \in QualityLevels :
            LevelThreshold(l) <= score => LevelThreshold(l) <= LevelThreshold(level)

\* 0.3*completeness + 0.25*freshness + 0.25*accuracy + 0.2*consistency
WeightedSum(q) ==
    3 * (q.completeness_score \div 10) + q.freshness_score \div 4
        + q.accuracy_score \div 4 + q.consistency_score \div 5

\* C14: for every input the quality computation returns overall_score =
\* 0.3*completeness + 0.25*freshness + 0.25*accuracy + 0.2*consistency
\* rounded to 6 decimals, and quality_level is the highest of excellent
\* (95), good (85), fair (70), poor (50), unreliable whose threshold is at
\* most overall_score.
C14_OverallScoreAndLevel ==
    assessed.kind = "quality" =>
        /\ assessed.quality.overall_score = Round6(WeightedSum(assessed.quality))
        /\ IsLevelOf(assessed.quality.quality_level,
                     assessed.quality.overall_score)

\* what the computation does return: the weighted sum as it is, and the
\* level of that sum
UnroundedScoreAndLevel ==
    assessed.kind = "quality" =>
        /\ assessed.quality.overall_score = WeightedSum(assessed.quality)
        /\ IsLevelOf(assessed.quality.quality_level,
                     assessed.quality.overall_score)

\* the number of the fields symbol and price a payload has with a value
PresentRequired(payload) ==
    Cardinality({"symbol", "price"} \cap (payload.keys \ payload.nulls))

\* C15: for a quote payload, completeness_score = 100 * (number of the
\* required fields symbol and price that are present and non-null) / 2; a
\* payload that has a symbol but no price field scores 50.
C15_CompletenessOfQuotePayload ==
    assessed.kind = "quality" =>
        assessed.quality.completeness_score
            = PresentRequired(assessed.payload) * Points(50)

\* what holds of the completeness: the claimed value for a payload in whose
\* text "price" occurs, and 100 or 0 by the symbol alone for any other
CompletenessByMention ==
    assessed.kind = "quality" =>
        assessed.quality.completeness_score
            = IF \E k \in assessed.payload.keys : KeyMentionsPrice(k)
              THEN PresentRequired(assessed.payload) * Points(50)
              ELSE IF "symbol" \in assessed.payload.keys \ assessed.payload.nulls
                   THEN Points(100) ELSE 0

\* s is in ascending order of date
IsAscending(s) == \A i, j \in 1..Len(s) : i < j => s[i] < s[j]

\* C16: every successful historical response, from either adapter, fetched
\* fresh or read back from the cache, has its points in ascending order of
\* date whatever the order of the upstream's bars; a series that is not
\* ascending is never cached and never returned as a success.
C16_HistoricalSeriesAscending ==
    /\ (/\ cache_ret.op = "get_historical_data"
        /\ cache_ret.response.success) => IsAscending(cache_ret.series)
    /\ \A k \in AdapterKeys :
            (k[1] = "historical" /\ cache_written[k].written) =>
                IsAscending(cache_written[k].value.body)

\* the detection has flagged the anomaly type
Flagged(type) ==
    \E i \in 1..Len(assessed.detection.anomaly_types) :
        assessed.detection.anomaly_types[i] = type

\* C17: with anomaly detection enabled, extreme_price_change is among the
\* anomaly types exactly when |change_percent| > 20; when it is flagged its
\* confidence is min(100, |change_percent| / 20 * 50), which is above 50;
\* has_anomalies is true exactly when the list of types is not empty.
C17_ExtremePriceChange ==
    assessed.kind = "anomalies" =>
        LET cp == assessed.data.change_percent
            d == assessed.detection
        IN  /\ Flagged("extreme_price_change")
                <=> (cp # Absent /\ (cp > 200 \/ cp < 0 - 200))
            /\ Flagged("extreme_price_change") =>
                /\ d.anomaly_types[1] = "extreme_price_change"
                /\ d.confidence_scores[1]
                        = (IF Abs(cp) * 25 > 10000 THEN 10000 ELSE Abs(cp) * 25)
                /\ d.confidence_scores[1] > 5000
            /\ d.has_anomalies <=> d.anomaly_types # << >>

\* C17 witness: a quote whose change is above the threshold has been
\* assessed and flagged, with a confidence below the cap of 100.
C17_Witness ==
    /\ assessed.kind = "anomalies"
    /\ assessed.data.change_percent = 0 - 250
    /\ assessed.detection.has_anomalies
    /\ assessed.detection.confidence_scores[1] = 6250

\* the quote's price and open both lie between its low and its high
InRange(data) ==
    /\ data.low <= data.price /\ data.price <= data.high
    /\ data.low <= data.open /\ data.open <= data.high

\* the quote's volume is above 5 times the mean of the historical volumes
HasVolumeSpike(data, historical_data) ==
    /\ data.volume # Absent
    /\ historical_data # << >>
    /\ data.volume * Len(historical_data) > 5 * SumOf(historical_data)

\* C18: with anomaly detection enabled and price, open, high and low all
\* present, price_inconsistency is flagged exactly when not (low <= price
\* <= high and low <= open <= high), with confidence 90; a quote within
\* both ranges, with |change_percent| <= 20 and no volume spike has
\* has_anomalies = false, no anomaly types and confidence 0.
C18_PriceInconsistency ==
    (/\ assessed.kind = "anomalies"
     /\ assessed.data.low # Absent) =>
        LET data == assessed.data
            d == assessed.detection
            n == Len(d.anomaly_types)
        IN  /\ Flagged("price_inconsistency") <=> ~InRange(data)
            /\ Flagged("price_inconsistency") =>
                /\ d.anomaly_types[n] = "price_inconsistency"
                /\ d.confidence_scores[Len(d.confidence_scores)] = 9000
            /\ (/\ InRange(data)
                /\ data.change_percent # Absent
                /\ Abs(data.change_percent) <= 200
                /\ ~HasVolumeSpike(data, assessed.historical_data)) =>
                    /\ ~d.has_anomalies
                    /\ d.anomaly_types = << >>
                    /\ d.confidence_score.num = 0

\* C18 witness: a quote whose open lies below its low, its price within the
\* range, has been assessed: price_inconsistency alone, confidence 90.
C18_Witness ==
    /\ assessed.kind = "anomalies"
    /\ assessed.data.low = 2 /\ assessed.data.open = 1
    /\ assessed.data.price = 2 /\ assessed.data.high = 3
    /\ assessed.detection.anomaly_types = <<"price_inconsistency">>
    /\ assessed.detection.confidence_score = [num |-> 9000, den |-> 1]

\* the providers of the attempts of a trail before its last, in order
EarlierAttempts(trail) ==
    [i \in 1..(Len(trail) - 1) |-> trail[i].provider]

\* C19: when a request succeeds only after failover, the envelope's
\* provenance.fallback_sources lists exactly the providers attempted
\* earlier on this call, in attempt order; it is empty only when the first
\* attempted provider produced the data.
C19_FallbackSourcesListEarlierAttempts ==
    (returned.kind = "response" /\ returned.envelope.success) =>
        returned.envelope.fallback_sources = EarlierAttempts(returned.trail)

\* C20: on every successful envelope provenance.primary_source names the
\* provider whose adapter produced the data, the provider recorded in the
\* ProviderResponse; no successful response is attributed to another
\* provider.
C20_PrimarySourceIsProducer ==
    (returned.kind = "response" /\ returned.envelope.success) =>
        /\ returned.envelope.primary_source = returned.result.provider
        /\ returned.envelope.primary_source = LastAttempt(returned.trail).provider

\* C20 witness: a call whose first provider failed has just returned the
\* envelope of its second provider's data, and that provider is not yahoo.
C20_Witness ==
    /\ returned.kind = "response"
    /\ returned.envelope.success
    /\ Len(returned.trail) = 2
    /\ returned.result.provider = "fmp"
    /\ returned.envelope.primary_source = "fmp"

C24_StatusAfterInitialization ==
    /\ init_pc = "done" =>
            \A p \in Providers :
                factory.provider_configs[p].status
                    \in (IF enabled[p] THEN {"healthy", "unhealthy"}
                         ELSE {"disabled"})
    /\ \A p \in Providers :
            ~enabled[p] => (p \notin JustChosen /\ p \notin health_checks
                                /\ p \notin provider_instances)

\* C24 witness: a factory with a provider that is not enabled has been
\* initialized, and later, with health probes in flight, a request has
\* selected a provider.
C24_Witness ==
    /\ init_pc = "done"
    /\ \E p \in Providers :
            ~enabled[p] /\ factory.provider_configs[p].status = "disabled"
    /\ health_checks # {}
    /\ sel # None

\* the providers _get_available_providers lists in the current state
AvailableNow ==
    LET available == GetAvailableProviders(factory, now).available
    IN  {available[i] : i \in 1..Len(available)}

\* the step just taken ended a call with the error select_provider's None
\* leads to
RaisedNoProviders ==
    /\ returned.kind = "raise"
    /\ returned.raised.message = "No available providers for request"

\* C25: under the priority_order policy select_provider returns an
\* available provider whose priority value is the least among all available
\* providers, returns none only if no provider is available, and returns
\* the same provider whenever the provider states are the same (the one
\* provider the states determine).
C25_PrioritySelectsLeast ==
    failover_strategy = "priority_order" =>
        /\ sel # None =>
                /\ sel \in AvailableNow
                /\ \A q \in AvailableNow \ {sel} : priority[sel] < priority[q]
        /\ RaisedNoProviders => AvailableNow = {}

\* C25 witness: under priority_order, with the provider of least priority
\* value enabled but not available, select_provider has returned another.
C25_Witness ==
    /\ failover_strategy = "priority_order"
    /\ enabled["fmp"]
    /\ sel = "yahoo"
    /\ "alpha_vantage" \in AvailableNow

(***************************************************************************)
(* Claims about the errors and the counters of get_with_failover           *)
(***************************************************************************)
\* the exception the except branches keep for a failed attempt
ErrorOfAttempt(entry) ==
    CASE entry.outcome = "timeout" ->
            DataProviderError("Request timeout for provider", entry.provider)
      [] entry.outcome = "rate_limit" ->
            DataProviderRateLimitError(entry.provider)
      [] entry.outcome = "error" ->
            DataProviderError("upstream request failed", entry.provider)

\* get_with_failover has just raised (the wrappers' TypeError is raised
\* before it is entered)
FailoverRaised ==
    returned.kind = "raise" /\ returned.raised.type # "TypeError"

\* C26: a get_with_failover call that does not return a result raises
\* exactly one of: the 'no available providers' factory error, when at some
\* attempt the selection policy yields no provider; otherwise, once the
\* attempts are exhausted or no untried provider remains, the error kept
\* from the last failed attempt (the generic 'all providers failed' error
\* if none was kept).
C26_ErrorOfFailedCall ==
    FailoverRaised =>
        IF Len(returned.trail) < max_retries /\ sel = None
        THEN /\ returned.raised
                    = DataProviderError("No available providers for request",
                                        "factory")
             /\ AvailableNow = {}
        ELSE /\ returned.trail # << >>
             /\ returned.raised = ErrorOfAttempt(LastAttempt(returned.trail))
             /\ \/ Len(returned.trail) = max_retries
                \/ AvailableNow \subseteq AttemptedProviders(returned.trail)

\* C26 witness: a call has raised the error of its second and last failed
\* attempt, a timeout, before its attempts were used up, because no untried
\* provider was left.
C26_Witness ==
    /\ FailoverRaised
    /\ Len(returned.trail) = 2
    /\ sel # None
    /\ returned.raised.message = "Request timeout for provider"

\* C29: each adapter call that ends in a transient upstream failure and is
\* made through get_with_failover increases that provider's failed_requests
\* and consecutive_failures by 1 and is not counted in successful_requests.
C29_UpstreamFailureIsRecorded ==
    (/\ rec.provider \in ConcreteAdapters
     /\ rec.outcome = "returned"
     /\ returned.result.error = "request failed after all attempts") =>
        /\ rec.after.failed_requests = rec.before.failed_requests + 1
        /\ rec.after.consecutive_failures
                = rec.before.consecutive_failures + 1
        /\ rec.after.successful_requests = rec.before.successful_requests

\* a failed attempt has just been recorded
FailedAttemptRecorded == rec.outcome \in {"timeout", "rate_limit", "error"}

\* C30: the factory's failover_count increases by exactly one each time a
\* failed attempt is followed by another provider attempt within the same
\* get_with_failover call, and does not increase when no further attempt
\* follows.
C30_FailoverCountsFollowedAttempts ==
    FailedAttemptRecorded =>
        rec.failover_after
            = rec.failover_before + (IF inv # None THEN 1 ELSE 0)

\* what the loop does: the count goes up after every failed attempt but
\* the last of the max_retries iterations
FailoverCountsByIteration ==
    FailedAttemptRecorded =>
        rec.failover_after
            = rec.failover_before
                + (IF rec.attempt < max_retries - 1 THEN 1 ELSE 0)

(***************************************************************************)
(* Claims about the adapters' retry loop and about warm_cache              *)
(***************************************************************************)
\* C21: when the upstream answers an adapter request with an
\* authentication failure (HTTP 401), the adapter issues no further
\* upstream request for that call, without retry and backoff sleep, and the
\* call fails with an authentication error.
C21_NoRetryAfterAuthenticationFailure ==
    \A i \in 1..Len(upstream_call.answers) :
        upstream_call.answers[i] = "unauthorized" =>
            /\ i = Len(upstream_call.answers)
            /\ upstream_call.pc = "done"
            /\ ~upstream_call.success
            /\ upstream_call.error = "authentication failed"
            /\ Len(upstream_call.sleeps) = i - 1

\* C22: warm_cache never overwrites an existing entry: for every key that
\* holds a value at the moment warm_cache would write it, also a value a
\* concurrent set wrote between warm_cache's check and its own write, the
\* stored value is left unchanged.
C22_WarmingNeverOverwrites == warm.overwritten = {}

\* the answers of a call without the last one
EarlierAnswers(answers) == SubSeq(answers, 1, Len(answers) - 1)

\* every answer of the sequence is a transient failure
AllTransient(answers) ==
    \A i \in 1..Len(answers) :
        answers[i] \in {"invalid", "server_error", "network_error", "error"}

\* the sleeps after the failed attempts 0 .. n-1: 1, 2, 4 seconds
BackoffSleeps(n) == [k \in 1..n |-> 2 ^ (k - 1)]

SymbolsListed(items) == [i \in 1..Len(items) |-> items[i].symbol]

\* the symbols of a category whose fetch succeeded, in the configured order
SymbolsFetched(c, fetch) ==
    LET Fetched(s) == fetch[s] # "failed"
    IN  SelectSeq(OverviewSymbols[c], Fetched)

\* C27: in the free adapter's market-overview fan-out the failure of any
\* individual symbol does not fail the call: the response has success =
\* true and each category lists exactly the symbols whose fetch succeeded,
\* in the configured order, with the failed symbols absent.
C27_OverviewListsFetchedSymbols ==
    assessed.kind = "overview" =>
        /\ assessed.response.success
        /\ \A c \in {"indices", "crypto"} :
                SymbolsListed(assessed.response.data[c])
                    = SymbolsFetched(c, assessed.fetch)

\* what holds of every overview: success, and one item for every symbol
\* whose fetch did not raise, in the configured order; the item names its
\* symbol unless the ticker info could not be converted
OverviewIsolatesFailedFetches ==
    assessed.kind = "overview" =>
        /\ assessed.response.success
        /\ \A c \in {"indices", "crypto"} :
            LET items == assessed.response.data[c]
                fetched == SymbolsFetched(c, assessed.fetch)
            IN  /\ Len(items) = Len(fetched)
                /\ \A i \in 1..Len(items) :
                        assessed.fetch[fetched[i]] = "ok" =>
                            items[i].symbol = fetched[i]

\* the providers a trail names, one entry per invocation, are all different
InvokedOnce(trail) ==
    \A i, j \in 1..Len(trail) : trail[i].provider = trail[j].provider => i = j

\* the invocations of one get_with_failover call so far: those that ended
\* (the trail) and the one awaited
InvocationsWithinBudget ==
    /\ \A r \in Requests :
            requests[r].pc = "inflight" =>
                LET made == Append(requests[r].trail,
                                   [provider |-> requests[r].provider,
                                    outcome |-> "awaited"])
                IN  InvokedOnce(made) /\ Len(made) <= max_retries
    /\ returned.kind # None =>
            InvokedOnce(returned.trail) /\ Len(returned.trail) <= max_retries

ReadOnlyStep ==
    /\ init_pc = "done" /\ init_pc' = "done"
    /\ rec' = NoRecording
    /\ health_checks' = health_checks
    /\ counts'.disturbances = counts.disturbances

\* C32: the runtime statistics of a provider (status, consecutive_failures,
\* circuit_breaker_opened_at, the request counters) change only when a
\* request outcome is recorded or a health check completes;
\* get_factory_status, ProviderConfig.to_dict and the selection of a
\* provider leave all of them unchanged.
C32_ReadsLeaveStatisticsUnchanged ==
    [][ReadOnlyStep =>
            factory'.provider_configs = factory.provider_configs]_vars

\* what the reads do change: the breaker whose timeout has elapsed is
\* closed and its failure count zeroed; everything else is left alone
ReadsOnlyCloseExpiredBreakers ==
    [][ReadOnlyStep =>
        \A p \in Providers :
            LET c == factory.provider_configs[p]
            IN  \/ factory'.provider_configs[p] = c
                \/ /\ c.circuit_breaker_opened_at # NoTime
                   /\ now - c.circuit_breaker_opened_at
                        >= CircuitBreakerTimeout
                   /\ factory'.provider_configs[p] =
                        [c EXCEPT !.circuit_breaker_opened_at = NoTime,
                                  !.consecutive_failures = 0]]_vars

\* the probe that just completed ran while the provider's upstream was
\* failing: its quote operation ended unsuccessfully, by a raise or by a
\* response with success = false
ProbeFoundUpstreamFailing ==
    /\ probed.provider # None
    /\ ~CheckHealth_BySuccess(probed.provider, probed.outcome)

ProbeFoundUpstreamWorking ==
    /\ probed.provider # None
    /\ CheckHealth_BySuccess(probed.provider, probed.outcome)

\* C33: when a health probe (at initialization or from the monitor) runs
\* against a provider whose upstream is failing, so that its quote
\* operation ends unsuccessfully, the provider's status becomes unhealthy
\* and it is no longer available for selection; when a later probe finds
\* the upstream working, the status returns to healthy.
C33_ProbeSetsStatusByUpstream ==
    /\ ProbeFoundUpstreamFailing =>
            /\ factory.provider_configs[probed.provider].status = "unhealthy"
            /\ ~ReachesBreakerCheck(factory, probed.provider)
    /\ ProbeFoundUpstreamWorking =>
            factory.provider_configs[probed.provider].status = "healthy"

\* what the probes do: the status is unhealthy exactly when the quote
\* operation raised, which the concrete adapters never do
ProbeSetsStatusByRaise ==
    probed.provider # None =>
        /\ factory.provider_configs[probed.provider].status =
                (IF probed.outcome = "raised" THEN "unhealthy" ELSE "healthy")
        /\ probed.provider \in ConcreteAdapters => probed.outcome # "raised"

\* C34: every upstream request an adapter makes is preceded by its own
\* admission by the rate limiter: for each provider and endpoint the
\* upstream requests issued never outnumber the is_allowed calls that
\* returned true, the requests issued as retries included.
C34_RequestsWithinAdmissions ==
    \A p \in ConcreteAdapters :
        upstream_call.issued[p] <= upstream_call.admitted[p]

\* what holds: no request without an admitted call before it, and at most
\* max_retries + 1 requests on one admission
RequestsWithinRetriesOfAdmissions ==
    \A p \in ConcreteAdapters :
        /\ upstream_call.issued[p]
                <= (adapter_max_retries + 1) * upstream_call.admitted[p]
        /\ upstream_call.pc = "attempting" /\ upstream_call.provider = p
                => upstream_call.admitted[p] > 0

\* the step in which an is_allowed call returns denied
CallDenied ==
    /\ Len(rl_log') = Len(rl_log) + 1
    /\ ~rl_log'[Len(rl_log')].allowed

\* C35: an is_allowed call that returns denied leaves the stored timestamp
\* sets of all four windows unchanged; only a call admitted by all four
\* windows appends its timestamp, and then it appends to all four.
C35_DeniedCallAppendsNothing ==
    [][CallDenied => \A k \in RLKeys : zsets'[k] \subseteq zsets[k]]_vars

\* what the batches do: each one leaves the time of its call in the set of
\* its window, whether the count it read admits the call or denies it
EveryBatchAppends ==
    [][\A c \in Callers :
            callers[c].pc \in Windows /\ callers'[c].pc # callers[c].pc =>
                LET k == <<callers[c].provider, callers[c].pc>>
                    t == IF callers[c].pc = "burst"
                         THEN callers[c].current_time ELSE now
                IN  t \in zsets'[k]]_vars

\* the cache level of an operation's data class
LevelOfDataClass(op) ==
    CASE op \in {"get_stock_quote", "get_crypto_quote"} -> "quotes"
      [] op = "get_stock_profile" -> "profiles"
      [] op = "get_historical_data" -> "historical"
      [] op = "search_securities" -> "search"
      [] op = "get_market_overview" -> "market_overview"

\* an adapter operation has just cached the answer to its request
JustCached == cache_ret.provider # None /\ cache_ret.op \in CachedOperations("fmp")

\* the entry just cached is filed under level, with the TTL of that level
CachedAtLevel(level) ==
    /\ cache_ret.key[1] = level
    /\ redis_cache[cache_ret.key].present
    /\ redis_cache[cache_ret.key].expire_at = now + cache_ttls[level]

\* C36: the cache level, and with it the TTL, of an adapter's cache entry
\* is fixed by the data class of the operation, in the same way for every
\* provider: quotes 60 s, profiles 3600 s, historical 14400 s, search
\* 900 s, market overview 300 s.
C36_LevelByDataClass ==
    JustCached => CachedAtLevel(LevelOfDataClass(cache_ret.op))

\* what holds: quotes and historical series of both adapters, and the
\* profiles and searches of FMP, are cached at the level of their class;
\* every other entry is cached at quotes
LevelByRequestName ==
    JustCached =>
        IF \/ cache_ret.op \in {"get_stock_quote", "get_crypto_quote",
                                "get_historical_data"}
           \/ /\ cache_ret.provider = "fmp"
              /\ cache_ret.op \in {"get_stock_profile", "search_securities"}
        THEN CachedAtLevel(LevelOfDataClass(cache_ret.op))
        ELSE CachedAtLevel("quotes")

\* the names of the list a, in alphabetical order
Alphabetical(a) ==
    LET InList(p) == \E i \in 1..Len(a) : a[i] = p
    IN  SelectSeq(SortedOrder, InList)

\* the name after p in the alphabetical rotation over a
NextInRotation(a, p) ==
    LET sorted == Alphabetical(a)
        i == CHOOSE j \in 1..Len(sorted) : sorted[j] = p
    IN  sorted[(i % Len(sorted)) + 1]

\* the calls i .. i + n - 1 were all made with the available providers of
\* call i, n of them
SameAvailable(i) ==
    LET a == selections[i].available
    IN  /\ a # << >>
        /\ i + Len(a) - 1 <= Len(selections)
        /\ \A j \in i..(i + Len(a) - 1) : selections[j].available = a

\* C37: under the round_robin policy, with an unchanged set of n available
\* providers, any n consecutive select_provider calls return each available
\* provider exactly once, in alphabetical order, and the rotation goes on
\* cyclically; when the available set changes between calls,
\* select_provider still returns a provider that is available.
C37_RoundRobinRotation ==
    /\ \A i \in 1..Len(selections) :
            SameAvailable(i) =>
                LET a == selections[i].available
                    n == Len(a)
                IN  /\ {selections[j].name : j \in i..(i + n - 1)}
                            = {a[k] : k \in 1..n}
                    /\ \A j \in i..(i + n - 2) :
                            selections[j + 1].name
                                = NextInRotation(a, selections[j].name)
    /\ \A i \in 1..(Len(selections) - 1) :
            /\ selections[i].available # << >>
            /\ selections[i + 1].available = selections[i].available
            => selections[i + 1].name
                    = NextInRotation(selections[i].available,
                                     selections[i].name)
    /\ \A i \in 1..Len(selections) :
            LET a == selections[i].available
            IN  IF a = << >> THEN selections[i].name = None
                ELSE \E k \in 1..Len(a) : a[k] = selections[i].name

\* four calls over three available providers: each once, then the first
\* again; and a call made after the available set has changed
C37_Witness ==
    /\ Len(selections) = 4
    /\ \A i \in 1..4 : Len(selections[i].available) = 3
    /\ selections[1].name = "alpha_vantage"
    /\ selections[2].name = "fmp"
    /\ selections[3].name = "yahoo"
    /\ selections[4].name = "alpha_vantage"

C37_ChangedSetReached ==
    /\ Len(selections) >= 3
    /\ Len(selections[1].available) = 3
    /\ Len(selections[2].available) = 3
    /\ Len(selections[3].available) = 2

\* the breaker of p opened some time ago and its timeout has elapsed
BreakerTimedOut(p) ==
    /\ factory.provider_configs[p].circuit_breaker_opened_at # NoTime
    /\ now - factory.provider_configs[p].circuit_breaker_opened_at
            >= CircuitBreakerTimeout

\* the next evaluation of a timed-out breaker reports it closed, zeroes the
\* count, and the provider is available if nothing else excludes it
TimedOutBreakerCloses ==
    \A p \in Providers :
        BreakerTimedOut(p) =>
            LET c == factory.provider_configs[p]
            IN  /\ ~IsCircuitBreakerOpen(c, now)
                /\ ReadCircuitBreaker(c, now).circuit_breaker_opened_at = NoTime
                /\ ReadCircuitBreaker(c, now).consecutive_failures = 0
                /\ (ReachesBreakerCheck(factory, p) /\ p \in provider_instances)
                    => \E i \in 1..Len(GetAvailableProviders(factory, now).available) :
                            GetAvailableProviders(factory, now).available[i] = p

\* the step just taken recorded the failure of the first attempt on a
\* provider since its breaker was closed by the timeout
FirstAttemptAfterTimeoutFailed ==
    /\ rec.provider # None
    /\ breaker_opened[rec.provider] # NoTime
    /\ rec.before.circuit_breaker_opened_at = NoTime
    /\ rec.before.consecutive_failures = 0
    /\ rec.before.successful_requests = 0
    /\ rec.after.failed_requests = rec.before.failed_requests + 1

\* C38: once circuit_breaker_timeout has elapsed since a provider's breaker
\* opened, the next evaluation of the breaker reports it closed and sets
\* consecutive_failures to 0, so that the provider is selectable again if
\* it is otherwise available; and if the next attempt on that provider
\* then fails, the breaker is open again at once.
C38_BreakerReopensOnNextFailure ==
    /\ TimedOutBreakerCloses
    /\ FirstAttemptAfterTimeoutFailed =>
            rec.after.circuit_breaker_opened_at # NoTime

\* what holds: after the reset the failure counts from zero again, and the
\* breaker opens only when the count reaches the threshold
BreakerReopensAtThreshold ==
    /\ TimedOutBreakerCloses
    /\ FirstAttemptAfterTimeoutFailed =>
            /\ rec.after.consecutive_failures = 1
            /\ (rec.after.circuit_breaker_opened_at # NoTime)
                    = (1 >= CircuitBreakerThreshold)
    /\ (rec.provider # None
            /\ rec.before.circuit_breaker_opened_at = NoTime
            /\ rec.after.circuit_breaker_opened_at # NoTime)
        => rec.after.consecutive_failures >= CircuitBreakerThreshold

C38_FailureAfterTimeoutReached == FirstAttemptAfterTimeoutFailed

\* the monitoring loops that are running: inside the while loop and not
\* under a cancellation that stop_health_monitoring has requested
RunningLoops ==
    {i \in 1..Len(monitor.tasks) :
        monitor.tasks[i].pc = "looping" /\ ~monitor.tasks[i].cancel}

\* C39: whatever the sequence and interleaving of start_health_monitoring
\* and stop_health_monitoring calls, at most one health-monitoring loop is
\* running at any time, and every loop that was started is terminated by
\* the next stop_health_monitoring: none goes round again after it.
C39_OneLoopStoppedByStop ==
    /\ Cardinality(RunningLoops) <= 1
    /\ \A i \in 1..Len(monitor.tasks) : ~monitor.tasks[i].outlived

\* what holds: the "monitor" entry is the task created last, a stop
\* cancels that task and no other, and a loop that wakes with the flag
\* clear ends: one that outlived a stop found the flag set again
StopCancelsRegisteredTask ==
    /\ monitor.registered \in {0, Len(monitor.tasks)}
    /\ \A i \in 1..Len(monitor.tasks) :
            monitor.tasks[i].cancel => monitor.registered # i
    /\ \A i \in 1..Len(monitor.tasks) :
            monitor.tasks[i].outlived => Len(monitor.tasks) > i

C39_TwoLoopsReached == Cardinality(RunningLoops) = 2
====
